---- MODULE Spec2Model ----
(***************************************************************************)
(* Model of scripts/zigbee-log-analyser.py: the line normalizer, the ZCL   *)
(* header decoder, the OTA request decoder, the two-pass manufacturer      *)
(* index (with its JSON cache) and the per-device aggregation of pass 2.   *)
(*                                                                         *)
(* Text is modelled as a sequence of one-character strings, so that        *)
(* upper(), lower(), int(x, 16), str(n) and the format specs {:04X} are    *)
(* computed character by character.  A Python value that may be None, an   *)
(* int or a str is a record [t, n, s] (NoneV, IntV(n), StrV(s)).           *)
(***************************************************************************)
EXTENDS Integers, Sequences, FiniteSets, TLC

VARIABLES
  log,            \* the log file: a sequence of indices into LineTable
  cfg,            \* the arguments of analyze_log
  cache,          \* the index-cache file on disk
  pc,             \* "start", "pass1", "pass2", "done", "crashed"
  pos,            \* 1-based number of the next line the running pass reads
  branch,         \* how this run got its index: "none", "cache", "build"
  dni_mfr_index,  \* dict address -> code, as a sequence of <<key, value>>
  devices,        \* defaultdict name -> aggregate
  global_summary, \* the three run-wide Counters
  sink,           \* the lines written to the output file, in order
  all_times,      \* the truthy timestamps seen
  writes,         \* how often this run opened the cache file for writing
  second,         \* TRUE in the run that follows the first one
  prev_run,       \* what the first run ended with: [branch, index, writes]
  frame_in,       \* the payload handed to the decoders called on their own
  dpc,            \* "idle", "payload", "header", "request", "raised"
  zcl_out,        \* what parse_zcl returned for frame_in
  ota_out,        \* what parse_ota_request_payload returned for frame_in
  code_in,        \* the argument of normalize_mfr_code
  norm_out        \* what normalize_mfr_code returned: [set, s]

\* the state of a run of analyze_log, and the state of a decoder called alone
rvars == <<log, cfg, cache, pc, pos, branch, dni_mfr_index, devices,
           global_summary, sink, all_times, writes, second, prev_run>>
fvars == <<frame_in, dpc, zcl_out, ota_out, code_in, norm_out>>

vars == <<rvars, fvars>>

----------------------------------------------------------------------------
(* Python values *)

NoneV == [t |-> "none", n |-> 0, s |-> <<>>]
IntV(n) == [t |-> "int", n |-> n, s |-> <<>>]
StrV(s) == [t |-> "str", n |-> 0, s |-> s]
BoolV(b) == [t |-> "bool", n |-> IF b THEN 1 ELSE 0, s |-> <<>>]

\* bool(v): None, 0, '' and False are falsy
Truthy(v) ==
  CASE v.t = "none" -> FALSE
    [] v.t = "int"  -> v.n # 0
    [] v.t = "bool" -> v.n # 0
    [] OTHER        -> v.s # <<>>

\* `a or b`
PyOr(a, b) == IF Truthy(a) THEN a ELSE b

----------------------------------------------------------------------------
(* Characters and numbers *)

HexChars == <<"0","1","2","3","4","5","6","7","8","9","A","B","C","D","E","F">>
LowerAlpha == <<"a","b","c","d","e","f","g","h","i","j","k","l","m",
                "n","o","p","q","r","s","t","u","v","w","x","y","z">>
UpperAlpha == <<"A","B","C","D","E","F","G","H","I","J","K","L","M",
                "N","O","P","Q","R","S","T","U","V","W","X","Y","Z">>

UpChar(c) ==
  IF \E i \in DOMAIN LowerAlpha : LowerAlpha[i] = c
    THEN UpperAlpha[CHOOSE i \in DOMAIN LowerAlpha : LowerAlpha[i] = c]
    ELSE c
LowChar(c) ==
  IF \E i \in DOMAIN UpperAlpha : UpperAlpha[i] = c
    THEN LowerAlpha[CHOOSE i \in DOMAIN UpperAlpha : UpperAlpha[i] = c]
    ELSE c

\* str.upper() and str.lower()
Upper(s) == [i \in DOMAIN s |-> UpChar(s[i])]
Lower(s) == [i \in DOMAIN s |-> LowChar(s[i])]

\* `sub in s`
Contains(s, sub) ==
  \E k \in 0..(Len(s) - Len(sub)) :
    \A i \in 1..Len(sub) : s[k + i] = sub[i]

IsHexChar(c) == \E i \in DOMAIN HexChars : HexChars[i] = UpChar(c)
HexDigit(c) == (CHOOSE i \in DOMAIN HexChars : HexChars[i] = UpChar(c)) - 1

\* int(tok, 16) raises ValueError exactly when this is FALSE
IsHex(tok) == tok # <<>> /\ \A i \in DOMAIN tok : IsHexChar(tok[i])

RECURSIVE HexInt(_)
HexInt(tok) ==
  IF tok = <<>> THEN 0
  ELSE HexInt(SubSeq(tok, 1, Len(tok) - 1)) * 16 + HexDigit(tok[Len(tok)])

\* the digits of format(n, 'X'), n >= 0
RECURSIVE HexStr(_)
HexStr(n) ==
  IF n < 16 THEN <<HexChars[n + 1]>>
  ELSE HexStr(n \div 16) \o <<HexChars[(n % 16) + 1]>>

RECURSIVE Zeros(_)
Zeros(k) == IF k <= 0 THEN <<>> ELSE <<"0">> \o Zeros(k - 1)

\* f"{n:0wX}"
FmtHex(n, w) == Zeros(w - Len(HexStr(n))) \o HexStr(n)

\* str(n) for an int n >= 0, and its inverse int(s)
RECURSIVE DecStr(_)
DecStr(n) ==
  IF n < 10 THEN <<HexChars[n + 1]>>
  ELSE DecStr(n \div 10) \o <<HexChars[(n % 10) + 1]>>

IsDecChar(c) == \E i \in 1..10 : HexChars[i] = c
IsDec(s) == s # <<>> /\ \A i \in DOMAIN s : IsDecChar(s[i])

RECURSIVE DecInt(_)
DecInt(s) ==
  IF s = <<>> THEN 0
  ELSE DecInt(SubSeq(s, 1, Len(s) - 1)) * 10 + HexDigit(s[Len(s)])

----------------------------------------------------------------------------
(* Manufacturer-code normalization *)

IsSpace(c) == c = " "

\* str.strip()
RECURSIVE LStrip(_)
LStrip(s) == IF s # <<>> /\ IsSpace(s[1]) THEN LStrip(Tail(s)) ELSE s
RECURSIVE RStrip(_)
RStrip(s) ==
  IF s # <<>> /\ IsSpace(s[Len(s)]) THEN RStrip(SubSeq(s, 1, Len(s) - 1))
  ELSE s
Strip(s) == RStrip(LStrip(s))

\* s.replace('0X', ''): the occurrences are found from the left, and a
\* pair that only forms once another one is removed stays
RECURSIVE Remove0X(_)
Remove0X(s) ==
  IF Len(s) < 2 THEN s
  ELSE IF s[1] = "0" /\ s[2] = "X" THEN Remove0X(SubSeq(s, 3, Len(s)))
  ELSE <<s[1]>> \o Remove0X(Tail(s))

\* the digits int(s, 16) reads from a string without sign, blank or
\* underscore: a leading 0x or 0X is a prefix, not a digit
Base16Digits(s) ==
  IF Len(s) >= 2 /\ s[1] = "0" /\ s[2] \in {"x", "X"}
    THEN SubSeq(s, 3, Len(s))
    ELSE s

\* f"{val:04x}"
normalize_mfr_code_lowercase(code) ==
  IF code.t = "none" THEN <<>>
  ELSE IF code.t = "int" THEN Lower(FmtHex(code.n % 65536, 4))
  ELSE LET s == Remove0X(Upper(Strip(code.s)))
       IN  IF IsHex(Base16Digits(s))
             THEN Lower(FmtHex(HexInt(Base16Digits(s)) % 65536, 4))
             ELSE SubSeq(s, 1, IF Len(s) < 4 THEN Len(s) ELSE 4)

\* normalize_mfr_code(code)
normalize_mfr_code(code) ==
  IF code.t = "none" THEN <<>>
  ELSE IF code.t = "int" THEN FmtHex(code.n % 65536, 4)
  ELSE LET s == Remove0X(Upper(Strip(code.s)))
       IN  IF IsHex(Base16Digits(s))
             THEN FmtHex(HexInt(Base16Digits(s)) % 65536, 4)
             ELSE SubSeq(s, 1, IF Len(s) < 4 THEN Len(s) ELSE 4)

----------------------------------------------------------------------------
(* Bytes *)

\* a byte written as a two-digit hex token, and a payload written from bytes
ByteTok(b) == <<HexChars[(b \div 16) + 1], HexChars[(b % 16) + 1]>>
Bytes(bs) == [i \in DOMAIN bs |-> ByteTok(bs[i])]

----------------------------------------------------------------------------
(* ZCL header decoder *)

BitSet(fc, mask) == (fc \div mask) % 2 = 1

ZclUnset ==
  [raised |-> FALSE, fc |-> NoneV, frame_type |-> "none",
   manuf_specific |-> FALSE, direction |-> "none",
   disable_default_rsp |-> FALSE, manufacturer_code |-> NoneV,
   sequence |-> NoneV, command_id |-> NoneV]

ZclRaise == [ZclUnset EXCEPT !.raised = TRUE]

\* flags read with bit 3 taken as client-to-server
zcl_flags_direction_inverted(fc) ==
  [ZclUnset EXCEPT
     !.fc = IntV(fc),
     !.frame_type = IF fc % 4 = 1 THEN "cluster" ELSE "global",
     !.manuf_specific = BitSet(fc, 4),
     !.direction = IF BitSet(fc, 8) THEN "client_to_server"
                                    ELSE "server_to_client",
     !.disable_default_rsp = BitSet(fc, 16)]

\* lines 113-117: the frame-control byte and the fields read from its bits
zcl_flags(fc) ==
  [ZclUnset EXCEPT
     !.fc = IntV(fc),
     !.frame_type = IF fc % 4 = 1 THEN "cluster" ELSE "global",
     !.manuf_specific = BitSet(fc, 4),
     !.direction = IF BitSet(fc, 8) THEN "server_to_client"
                                    ELSE "client_to_server",
     !.disable_default_rsp = BitSet(fc, 16)]

\* lines 118-126: the manufacturer code, the sequence number and the command
\* id; raised = TRUE stands for the ValueError that int(x, 16) raises outside
\* the try of line 112
zcl_after_flags(payload_hex, r1) ==
  LET idx == IF r1.manuf_specific THEN 3 ELSE 1   \* 0-based, as in the code
      short1 == r1.manuf_specific /\ Len(payload_hex) < 3
      bad1 == r1.manuf_specific
                /\ (~IsHex(payload_hex[2]) \/ ~IsHex(payload_hex[3]))
      r2 == IF r1.manuf_specific
              THEN [r1 EXCEPT !.manufacturer_code =
                      StrV(FmtHex(HexInt(payload_hex[3]) * 256
                                    + HexInt(payload_hex[2]), 4))]
              ELSE r1
  IN  IF short1 THEN r1
      ELSE IF bad1 THEN ZclRaise
      ELSE IF Len(payload_hex) < idx + 2 THEN r2
      ELSE IF ~IsHex(payload_hex[idx + 1]) \/ ~IsHex(payload_hex[idx + 2])
        THEN ZclRaise
      ELSE [r2 EXCEPT !.sequence = IntV(HexInt(payload_hex[idx + 1])),
                      !.command_id = IntV(HexInt(payload_hex[idx + 2]))]

\* a decoder that reads the frame-control byte of any non-empty payload
parse_zcl_one_byte_suffices(payload_hex) ==
  IF Len(payload_hex) < 1 THEN ZclUnset
  ELSE IF ~IsHex(payload_hex[1]) THEN ZclUnset
  ELSE IF Len(payload_hex) < 3 THEN zcl_flags(HexInt(payload_hex[1]))
  ELSE zcl_after_flags(payload_hex, zcl_flags(HexInt(payload_hex[1])))

\* a decoder that reads the manufacturer code only from a complete
\* five-byte header
parse_zcl_code_needs_five(payload_hex) ==
  IF Len(payload_hex) < 3 THEN ZclUnset
  ELSE IF ~IsHex(payload_hex[1]) THEN ZclUnset
  ELSE LET r1 == zcl_flags(HexInt(payload_hex[1]))
       IN  IF r1.manuf_specific /\ Len(payload_hex) < 5 THEN r1
           ELSE zcl_after_flags(payload_hex, r1)

\* parse_zcl(payload_hex)
parse_zcl(payload_hex) ==
  IF Len(payload_hex) < 3 THEN ZclUnset
  ELSE IF ~IsHex(payload_hex[1]) THEN ZclUnset
  ELSE zcl_after_flags(payload_hex, zcl_flags(HexInt(payload_hex[1])))

----------------------------------------------------------------------------
(* OTA request decoder *)

\* a 16-bit value read high byte first
_u16_big_endian(lo, hi) == HexInt(lo) * 256 + HexInt(hi)

_u16(lo, hi) == HexInt(hi) * 256 + HexInt(lo)
_u32(b0, b1, b2, b3) ==
  HexInt(b3) * 16777216 + HexInt(b2) * 65536 + HexInt(b1) * 256 + HexInt(b0)

\* the result None
NoMeta == [none |-> TRUE]

\* payload_hex[start:]
From(s, start) ==
  IF start >= Len(s) THEN <<>> ELSE SubSeq(s, start + 1, Len(s))

AllHex(data, k) == \A i \in 1..k : IsHex(data[i])

\* a decoder that returns the fields it could read of a short Image Block
\* request
parse_ota_request_payload_partial(payload_hex, zcl_header) ==
  LET start == 1 + (IF zcl_header.manuf_specific THEN 2 ELSE 0) + 2
      data == From(payload_hex, start)
      cmd == zcl_header.command_id
      head == [field_control |-> HexInt(data[1]),
               manufacturer_id |-> _u16(data[2], data[3]),
               image_type |-> _u16(data[4], data[5]),
               file_version |-> _u32(data[6], data[7], data[8], data[9])]
  IN  IF cmd.t = "none" \/ data = <<>> THEN NoMeta
      ELSE IF cmd.n \notin {1, 3, 6} THEN NoMeta
      ELSE IF Len(data) < 9 THEN NoMeta
      ELSE IF ~AllHex(data, 9) THEN NoMeta
      ELSE IF cmd.n = 1 THEN head
      ELSE IF cmd.n = 6 THEN
        [status |-> HexInt(data[1]),
         manufacturer_id |-> _u16(data[2], data[3]),
         image_type |-> _u16(data[4], data[5]),
         file_version |-> _u32(data[6], data[7], data[8], data[9])]
      ELSE IF Len(data) < 14 THEN head
      ELSE IF ~AllHex(data, 14) THEN NoMeta
      ELSE [field_control |-> HexInt(data[1]),
            manufacturer_id |-> _u16(data[2], data[3]),
            image_type |-> _u16(data[4], data[5]),
            file_version |-> _u32(data[6], data[7], data[8], data[9]),
            file_offset |-> _u32(data[10], data[11], data[12], data[13]),
            max_data_size |-> HexInt(data[14])]

\* parse_ota_request_payload(payload_hex, zcl_header); any exception gives None
parse_ota_request_payload(payload_hex, zcl_header) ==
  LET start == 1 + (IF zcl_header.manuf_specific THEN 2 ELSE 0) + 2
      data == From(payload_hex, start)
      cmd == zcl_header.command_id
  IN  IF cmd.t = "none" \/ data = <<>> THEN NoMeta
      ELSE IF cmd.n = 1 THEN
        IF Len(data) < 9 THEN NoMeta
        ELSE IF ~AllHex(data, 9) THEN NoMeta
        ELSE [field_control |-> HexInt(data[1]),
              manufacturer_id |-> _u16(data[2], data[3]),
              image_type |-> _u16(data[4], data[5]),
              file_version |-> _u32(data[6], data[7], data[8], data[9])]
      ELSE IF cmd.n = 3 THEN
        IF Len(data) < 14 THEN NoMeta
        ELSE IF ~AllHex(data, 14) THEN NoMeta
        ELSE [field_control |-> HexInt(data[1]),
              manufacturer_id |-> _u16(data[2], data[3]),
              image_type |-> _u16(data[4], data[5]),
              file_version |-> _u32(data[6], data[7], data[8], data[9]),
              file_offset |-> _u32(data[10], data[11], data[12], data[13]),
              max_data_size |-> HexInt(data[14])]
      ELSE IF cmd.n = 6 THEN
        IF Len(data) < 9 THEN NoMeta
        ELSE IF ~AllHex(data, 9) THEN NoMeta
        ELSE [status |-> HexInt(data[1]),
              manufacturer_id |-> _u16(data[2], data[3]),
              image_type |-> _u16(data[4], data[5]),
              file_version |-> _u32(data[6], data[7], data[8], data[9])]
      ELSE NoMeta

\* `if meta`
HasMeta(meta) == "none" \notin DOMAIN meta

----------------------------------------------------------------------------
(* Line normalizer.  A line of the file is a record                         *)
(*   [fmt, name, id, deviceId, profileId, clusterId, lqi, rssi, time,       *)
(*    ptype, payload]                                                       *)
(* fmt = "text": the line matches _text_re and the fields are the matched   *)
(* groups (strings); fmt = "json": the line is a JSON object and the fields *)
(* are the values of its keys (NoneV for a missing key); fmt = "json_other":*)
(* valid JSON that is no object; fmt = "garbage": neither.                  *)

\* int(s) of a string matching -?\d+
SignedInt(s) == IF s[1] = "-" THEN 0 - DecInt(Tail(s)) ELSE DecInt(s)

UNKNOWN == <<"u","n","k","n","o","w","n">>

NoRec == [kind |-> "none"]
RaiseRec == [kind |-> "raise"]

parse_text_line(line) ==
  IF line.fmt # "text" THEN NoRec
  ELSE [kind |-> "rec",
        name |-> line.name,
        network_id |-> IntV(DecInt(line.id.s)),
        device_id |-> IntV(DecInt(line.deviceId.s)),
        profileId |-> Upper(line.profileId.s),
        clusterId |-> Upper(line.clusterId.s),
        lqi |-> IntV(DecInt(line.lqi.s)),
        rssi |-> IntV(SignedInt(line.rssi.s)),
        time |-> line.time,
        payload |-> [i \in DOMAIN line.payload |-> Upper(line.payload[i])]]

\* parse_json_line(line): json.loads fails -> None; d.get on a non-object
\* raises AttributeError, which nothing catches
parse_json_line(line) ==
  IF line.fmt = "json_other" THEN RaiseRec
  ELSE IF line.fmt # "json" THEN NoRec
  ELSE [kind |-> "rec",
        name |-> PyOr(line.name, StrV(UNKNOWN)),
        network_id |-> line.id,
        device_id |-> line.deviceId,
        profileId |-> Upper(PyOr(line.profileId, StrV(<<>>)).s),
        clusterId |-> Upper(PyOr(line.clusterId, StrV(<<>>)).s),
        lqi |-> line.lqi,
        rssi |-> line.rssi,
        time |-> line.time,
        payload |-> IF line.ptype \in {"list", "str"}
                      THEN [i \in DOMAIN line.payload |-> Upper(line.payload[i])]
                      ELSE <<>>]

\* parse_text_line(line) or parse_json_line(line)
parse_line(line) ==
  LET t == parse_text_line(line)
  IN  IF t.kind = "rec" THEN t ELSE parse_json_line(line)

----------------------------------------------------------------------------
(* Name tables *)

\* ''.join(chars)
RECURSIVE Str(_)
Str(s) == IF s = <<>> THEN "" ELSE s[1] \o Str(Tail(s))

OTA_CLUSTER == <<"0","0","1","9">>
ZDO_PROFILE == <<"0","0","0","0">>

ZDO_NAMES ==
  << <<"0000", "NWK Address Req">>, <<"8000", "NWK Address Rsp">>,
     <<"0001", "IEEE Address Req">>, <<"8001", "IEEE Address Rsp">>,
     <<"0002", "Node Descriptor Req">>, <<"8002", "Node Descriptor Rsp">>,
     <<"0003", "Power Descriptor Req">>, <<"8003", "Power Descriptor Rsp">>,
     <<"0004", "Simple Descriptor Req">>, <<"8004", "Simple Descriptor Rsp">>,
     <<"0005", "Active Endpoints Req">>, <<"8005", "Active Endpoints Rsp">>,
     <<"0006", "Match Descriptors Req">>, <<"8006", "Match Descriptors Rsp">>,
     <<"0031", "Mgmt LQI Req">>, <<"8031", "Mgmt LQI Rsp">>,
     <<"0032", "Mgmt Routing Req">>, <<"8032", "Mgmt Routing Rsp">> >>

GLOBAL_COMMANDS ==
  << <<0, "Read Attributes">>, <<1, "Read Attributes Response">>,
     <<2, "Write Attributes">>, <<4, "Write Attributes Response">>,
     <<6, "Configure Reporting">>, <<7, "Configure Reporting Response">>,
     <<8, "Read Reporting Configuration">>,
     <<9, "Read Reporting Configuration Response">>,
     <<10, "Report Attributes">>, <<11, "Default Response">>,
     <<12, "Discover Attributes">>, <<13, "Discover Attributes Response">>,
     <<17, "Discover Commands Received">>,
     <<18, "Discover Commands Received Response">>,
     <<19, "Discover Commands Generated">>,
     <<20, "Discover Commands Generated Response">>,
     <<21, "Discover Attributes Extended">>,
     <<22, "Discover Attributes Extended Response">> >>

OTA_COMMANDS ==
  << <<0, "Image Notify">>, <<1, "Query Next Image Request">>,
     <<2, "Query Next Image Response">>, <<3, "Image Block Request">>,
     <<4, "Image Page Request">>, <<5, "Image Block Response">>,
     <<6, "Upgrade End Request">>, <<7, "Upgrade End Response">>,
     <<8, "Query Specific File">> >>

\* table.get(key, default) for a table written as a sequence of pairs
TableGet(table, key, default) ==
  IF \E i \in DOMAIN table : table[i][1] = key
    THEN table[CHOOSE i \in DOMAIN table : table[i][1] = key][2]
    ELSE default

----------------------------------------------------------------------------
(* Python dict with insertion order: a sequence of <<key, value>> pairs     *)

IdxHas(ix, k) == \E i \in DOMAIN ix : ix[i][1] = k
IdxKeys(ix) == {ix[i][1] : i \in DOMAIN ix}

\* ix.get(k): the code as a str value, or None
IdxGet(ix, k) ==
  IF IdxHas(ix, k)
    THEN StrV(ix[CHOOSE i \in DOMAIN ix : ix[i][1] = k][2])
    ELSE NoneV

\* ix[k] = v
IdxPut(ix, k, v) ==
  IF IdxHas(ix, k)
    THEN [i \in DOMAIN ix |-> IF ix[i][1] = k THEN <<k, v>> ELSE ix[i]]
    ELSE Append(ix, <<k, v>>)

\* the dict as a set of items, for comparing two dicts with ==
IdxItems(ix) == {ix[i] : i \in DOMAIN ix}

----------------------------------------------------------------------------
(* The index cache file: [exists, kind, entries, writable].                 *)
(* kind = "map": a JSON object, entries its <<key text, value>> pairs in    *)
(* file order; "not_json": not parseable; "not_object": JSON, but no object *)

NoCache(w) == [exists |-> FALSE, kind |-> "none", entries |-> <<>>, writable |-> w]

\* json.load of an object: a later pair with the same key replaces the value
RECURSIVE json_object(_)
json_object(entries) ==
  IF entries = <<>> THEN <<>>
  ELSE IdxPut(json_object(SubSeq(entries, 1, Len(entries) - 1)),
              entries[Len(entries)][1], entries[Len(entries)][2])

\* {int(k): v for k, v in d.items()}
RECURSIVE int_keys(_)
int_keys(d) ==
  IF d = <<>> THEN <<>>
  ELSE IdxPut(int_keys(SubSeq(d, 1, Len(d) - 1)),
              IntV(DecInt(d[Len(d)][1])), d[Len(d)][2])

\* load_cache keeping the keys as the strings json.load gives
load_cache_str_keys(c) ==
  IF c.kind = "not_json" THEN [outcome |-> "warn", index |-> <<>>]
  ELSE IF c.kind = "not_object" THEN [outcome |-> "raise", index |-> <<>>]
  ELSE LET d == json_object(c.entries)
       IN  [outcome |-> "ok",
            index |-> [i \in DOMAIN d |-> <<StrV(d[i][1]), d[i][2]>>]]

\* lines 208-211: the outcome of reading the cache file
\*   "ok": the dict was built; "warn": JSONDecodeError, IOError or ValueError
\*   was caught and the index stays {}; "raise": .items() on a non-object
load_cache(c) ==
  IF c.kind = "not_json" THEN [outcome |-> "warn", index |-> <<>>]
  ELSE IF c.kind = "not_object" THEN [outcome |-> "raise", index |-> <<>>]
  ELSE LET d == json_object(c.entries)
       IN  IF \E i \in DOMAIN d : ~IsDec(d[i][1])
             THEN [outcome |-> "warn", index |-> <<>>]
             ELSE [outcome |-> "ok", index |-> int_keys(d)]

\* the key json.dump writes for a dict key
json_key(k) == IF k.t = "int" THEN DecStr(k.n) ELSE k.s

\* lines 215-218: json.dump(dni_mfr_index, f)
dump_cache(c, index) ==
  IF ~c.writable THEN c
  ELSE [exists |-> TRUE, kind |-> "map", writable |-> TRUE,
        entries |-> [i \in DOMAIN index |-> <<json_key(index[i][1]), index[i][2]>>]]

----------------------------------------------------------------------------
(* Pass 1: build_dni_mfr_index *)

\* index_line without the test of the direction at line 191
index_line_any_direction(index, rec, z) ==
  IF rec.kind = "raise" THEN [raised |-> TRUE, index |-> index]
  ELSE IF rec.kind = "none" THEN [raised |-> FALSE, index |-> index]
  ELSE
    LET pay == rec.payload
        dni == rec.network_id
    IN  IF z.raised THEN [raised |-> TRUE, index |-> index]
        ELSE IF Truthy(z.manufacturer_code) /\ dni.t # "none"
          THEN [raised |-> FALSE,
                index |-> IdxPut(index, dni, z.manufacturer_code.s)]
        ELSE IF rec.clusterId = OTA_CLUSTER /\ z.command_id.t # "none"
          THEN LET meta == parse_ota_request_payload(pay, z) IN
               IF HasMeta(meta) /\ dni.t # "none"
                 THEN [raised |-> FALSE,
                       index |-> IdxPut(index, dni,
                                        FmtHex(meta.manufacturer_id, 4))]
                 ELSE [raised |-> FALSE, index |-> index]
        ELSE [raised |-> FALSE, index |-> index]

\* index_line without the OTA sniff of lines 191-196
index_line_header_only(index, rec, z) ==
  IF rec.kind = "raise" THEN [raised |-> TRUE, index |-> index]
  ELSE IF rec.kind = "none" THEN [raised |-> FALSE, index |-> index]
  ELSE IF z.raised THEN [raised |-> TRUE, index |-> index]
  ELSE IF Truthy(z.manufacturer_code) /\ rec.network_id.t # "none"
    THEN [raised |-> FALSE,
          index |-> IdxPut(index, rec.network_id, z.manufacturer_code.s)]
  ELSE [raised |-> FALSE, index |-> index]

\* an index that keeps the code an address was first seen with
index_line_first_seen(index, rec, z) ==
  IF rec.kind = "raise" THEN [raised |-> TRUE, index |-> index]
  ELSE IF rec.kind = "none" THEN [raised |-> FALSE, index |-> index]
  ELSE IF z.raised THEN [raised |-> TRUE, index |-> index]
  ELSE IF rec.network_id.t = "none" \/ IdxHas(index, rec.network_id)
    THEN [raised |-> FALSE, index |-> index]
  ELSE IF Truthy(z.manufacturer_code)
    THEN [raised |-> FALSE,
          index |-> IdxPut(index, rec.network_id, z.manufacturer_code.s)]
  ELSE IF rec.clusterId = OTA_CLUSTER /\ z.direction = "client_to_server"
            /\ z.command_id.t # "none"
            /\ HasMeta(parse_ota_request_payload(rec.payload, z))
    THEN [raised |-> FALSE,
          index |-> IdxPut(index, rec.network_id,
                      FmtHex(parse_ota_request_payload(rec.payload, z)
                               .manufacturer_id, 4))]
  ELSE [raised |-> FALSE, index |-> index]

\* lines 186-196, the body of the loop for one line: rec is the normalized
\* line and z its decoded header.  raised: an exception left parse_json_line
\* or parse_zcl and ends the run
index_line(index, rec, z) ==
  IF rec.kind = "raise" THEN [raised |-> TRUE, index |-> index]
  ELSE IF rec.kind = "none" THEN [raised |-> FALSE, index |-> index]
  ELSE
    LET pay == rec.payload
        dni == rec.network_id
    IN  IF z.raised THEN [raised |-> TRUE, index |-> index]
        ELSE IF Truthy(z.manufacturer_code) /\ dni.t # "none"
          THEN [raised |-> FALSE,
                index |-> IdxPut(index, dni, z.manufacturer_code.s)]
        ELSE IF rec.clusterId = OTA_CLUSTER
                  /\ z.direction = "client_to_server"
                  /\ z.command_id.t # "none"
          THEN LET meta == parse_ota_request_payload(pay, z) IN
               IF HasMeta(meta) /\ "manufacturer_id" \in DOMAIN meta
                    /\ dni.t # "none"
                 THEN LET mfr_hex == FmtHex(meta.manufacturer_id, 4) IN
                      IF ~IdxHas(index, dni) \/ IdxGet(index, dni).s # mfr_hex
                        THEN [raised |-> FALSE,
                              index |-> IdxPut(index, dni, mfr_hex)]
                        ELSE [raised |-> FALSE, index |-> index]
                 ELSE [raised |-> FALSE, index |-> index]
        ELSE [raised |-> FALSE, index |-> index]

----------------------------------------------------------------------------
(* Pass 2: filter chain *)

\* lines 229-230: the manufacturer filter rejects the record
mfr_rejects(rec, z, c, index) ==
  LET mfr_this == PyOr(z.manufacturer_code, IdxGet(index, rec.network_id))
  IN  ~Truthy(mfr_this) \/ Upper(mfr_this.s) # Upper(c.mfr_filter.s)

\* filter_line without the exemption of the OTA cluster at line 239
filter_line_no_ota_exemption(rec, z, c, index) ==
  LET is_zdo == rec.profileId = ZDO_PROFILE IN
  IF Truthy(c.mfr_filter) /\ z.raised THEN "raise"
  ELSE IF Truthy(c.mfr_filter) /\ mfr_rejects(rec, z, c, index) THEN "drop"
  ELSE IF Truthy(c.device_id_filter) /\ rec.device_id # c.device_id_filter
    THEN "drop"
  ELSE IF Truthy(c.device_name_filter)
            /\ ~Contains(Lower(PyOr(rec.name, StrV(<<>>)).s),
                         Lower(c.device_name_filter.s))
    THEN "drop"
  ELSE IF Truthy(c.dni_filter) /\ rec.network_id # c.dni_filter THEN "drop"
  ELSE IF c.cluster_filters # <<>>
            /\ ~\E i \in DOMAIN c.cluster_filters :
                   Upper(c.cluster_filters[i]) = Upper(rec.clusterId)
    THEN "drop"
  ELSE IF is_zdo /\ ~c.include_zdo THEN "drop"
  ELSE IF z.raised THEN "raise"
  ELSE IF c.unsolicited_only /\ z.direction # "server_to_client" /\ ~is_zdo
    THEN "drop"
  ELSE "keep"

\* lines 228-240 for a record rec whose header decodes to z:
\* "raise", "drop" or "keep"
filter_line(rec, z, c, index) ==
  LET is_zdo == rec.profileId = ZDO_PROFILE IN
  IF Truthy(c.mfr_filter) /\ z.raised THEN "raise"
  ELSE IF Truthy(c.mfr_filter) /\ mfr_rejects(rec, z, c, index) THEN "drop"
  ELSE IF Truthy(c.device_id_filter) /\ rec.device_id # c.device_id_filter
    THEN "drop"
  ELSE IF Truthy(c.device_name_filter)
            /\ ~Contains(Lower(PyOr(rec.name, StrV(<<>>)).s),
                         Lower(c.device_name_filter.s))
    THEN "drop"
  ELSE IF Truthy(c.dni_filter) /\ rec.network_id # c.dni_filter THEN "drop"
  ELSE IF c.cluster_filters # <<>>
            /\ ~\E i \in DOMAIN c.cluster_filters :
                   Upper(c.cluster_filters[i]) = Upper(rec.clusterId)
    THEN "drop"
  ELSE IF is_zdo /\ ~c.include_zdo THEN "drop"
  ELSE IF z.raised THEN "raise"
  ELSE IF c.unsolicited_only /\ z.direction # "server_to_client"
            /\ rec.clusterId # OTA_CLUSTER /\ ~is_zdo
    THEN "drop"
  ELSE "keep"

----------------------------------------------------------------------------
(* Pass 2: aggregation *)

\* Counter()[k] += 1
Inc(counter, k) ==
  IF k \in DOMAIN counter THEN [counter EXCEPT ![k] = @ + 1]
  ELSE [x \in DOMAIN counter \cup {k} |-> IF x = k THEN 1 ELSE counter[x]]

\* the value of the defaultdict factory of line 220
NewDevice ==
  [count |-> 0, lqis |-> <<>>, rssis |-> <<>>, mfr_code |-> NoneV,
   device_id |-> NoneV, network_id |-> NoneV, times |-> <<>>,
   per_cluster |-> <<>>, per_cmd |-> <<>>, per_global_cmd |-> <<>>,
   per_zdo |-> <<>>, per_ota_cmd |-> <<>>,
   ota_req_mfr |-> NoneV, ota_req_image_type |-> NoneV,
   ota_req_current_version |-> NoneV, ota_last_offset |-> NoneV,
   ota_max_block_size |-> NoneV, ota_blocks_count |-> NoneV,
   ota_completed_download |-> NoneV, ota_phase |-> "none"]

zdo_label(rec) ==
  TableGet(ZDO_NAMES, Str(rec.clusterId), "ZDO " \o Str(rec.clusterId))
global_label(cmd) ==
  TableGet(GLOBAL_COMMANDS, cmd, "Global 0x" \o Str(FmtHex(cmd, 2)))
ota_label(cmd) ==
  TableGet(OTA_COMMANDS, cmd, "OTA 0x" \o Str(FmtHex(cmd, 2)))

\* max(prev, off)
Max(a, b) == IF a >= b THEN a ELSE b

\* ota_update with the Upgrade End branch setting the phase of a query
ota_update_wrong_phase(dev, z, meta) ==
  IF ~HasMeta(meta) THEN dev
  ELSE IF z.command_id.n = 1 THEN
    [dev EXCEPT
       !.ota_req_mfr = StrV(<<"0","x">> \o FmtHex(meta.manufacturer_id, 4)),
       !.ota_req_image_type = StrV(<<"0","x">> \o FmtHex(meta.image_type, 4)),
       !.ota_req_current_version =
           StrV(<<"0","x">> \o FmtHex(meta.file_version, 8)),
       !.ota_phase = "querying"]
  ELSE IF z.command_id.n = 3 THEN
    [dev EXCEPT
       !.ota_last_offset =
           IntV(Max(PyOr(dev.ota_last_offset, IntV(0)).n, meta.file_offset)),
       !.ota_max_block_size = IntV(meta.max_data_size),
       !.ota_blocks_count = IntV(PyOr(dev.ota_blocks_count, IntV(0)).n + 1),
       !.ota_phase = "downloading"]
  ELSE IF z.command_id.n = 6 THEN
    [dev EXCEPT !.ota_completed_download = BoolV(TRUE),
                !.ota_phase = "querying"]
  ELSE dev

\* ota_update storing the offset of the latest request instead of the maximum
ota_update_last_write(dev, z, meta) ==
  IF ~HasMeta(meta) THEN dev
  ELSE IF z.command_id.n = 1 THEN
    [dev EXCEPT
       !.ota_req_mfr = StrV(<<"0","x">> \o FmtHex(meta.manufacturer_id, 4)),
       !.ota_req_image_type = StrV(<<"0","x">> \o FmtHex(meta.image_type, 4)),
       !.ota_req_current_version =
           StrV(<<"0","x">> \o FmtHex(meta.file_version, 8)),
       !.ota_phase = "querying"]
  ELSE IF z.command_id.n = 3 THEN
    [dev EXCEPT
       !.ota_last_offset = IntV(meta.file_offset),
       !.ota_max_block_size = IntV(meta.max_data_size),
       !.ota_blocks_count = IntV(PyOr(dev.ota_blocks_count, IntV(0)).n + 1),
       !.ota_phase = "downloading"]
  ELSE IF z.command_id.n = 6 THEN
    [dev EXCEPT !.ota_completed_download = BoolV(TRUE),
                !.ota_phase = "awaiting_upgrade"]
  ELSE dev

\* an update that counts a Query Next Image request as a block too
ota_update_counts_queries(dev, z, meta) ==
  IF ~HasMeta(meta) THEN dev
  ELSE IF z.command_id.n = 1 THEN
    [dev EXCEPT
       !.ota_req_mfr = StrV(<<"0","x">> \o FmtHex(meta.manufacturer_id, 4)),
       !.ota_req_image_type = StrV(<<"0","x">> \o FmtHex(meta.image_type, 4)),
       !.ota_req_current_version =
           StrV(<<"0","x">> \o FmtHex(meta.file_version, 8)),
       !.ota_blocks_count = IntV(PyOr(dev.ota_blocks_count, IntV(0)).n + 1),
       !.ota_phase = "querying"]
  ELSE IF z.command_id.n = 3 THEN
    [dev EXCEPT
       !.ota_last_offset =
           IntV(Max(PyOr(dev.ota_last_offset, IntV(0)).n, meta.file_offset)),
       !.ota_max_block_size = IntV(meta.max_data_size),
       !.ota_blocks_count = IntV(PyOr(dev.ota_blocks_count, IntV(0)).n + 1),
       !.ota_phase = "downloading"]
  ELSE IF z.command_id.n = 6 THEN
    [dev EXCEPT !.ota_completed_download = BoolV(TRUE),
                !.ota_phase = "awaiting_upgrade"]
  ELSE dev

\* lines 269-285: the OTA session of a device after a decoded inbound request
ota_update(dev, z, meta) ==
  IF ~HasMeta(meta) THEN dev
  ELSE IF z.command_id.n = 1 THEN
    [dev EXCEPT
       !.ota_req_mfr = StrV(<<"0","x">> \o FmtHex(meta.manufacturer_id, 4)),
       !.ota_req_image_type = StrV(<<"0","x">> \o FmtHex(meta.image_type, 4)),
       !.ota_req_current_version =
           StrV(<<"0","x">> \o FmtHex(meta.file_version, 8)),
       !.ota_phase = "querying"]
  ELSE IF z.command_id.n = 3 THEN
    [dev EXCEPT
       !.ota_last_offset =
           IntV(Max(PyOr(dev.ota_last_offset, IntV(0)).n, meta.file_offset)),
       !.ota_max_block_size = IntV(meta.max_data_size),
       !.ota_blocks_count = IntV(PyOr(dev.ota_blocks_count, IntV(0)).n + 1),
       !.ota_phase = "downloading"]
  ELSE IF z.command_id.n = 6 THEN
    [dev EXCEPT !.ota_completed_download = BoolV(TRUE),
                !.ota_phase = "awaiting_upgrade"]
  ELSE dev

\* ota_fold without the test of the direction at line 267
ota_fold_any_direction(dev, rec, z, c) ==
  IF c.ota_details /\ rec.clusterId = OTA_CLUSTER /\ z.command_id.t # "none"
    THEN ota_update([dev EXCEPT
                       !.per_ota_cmd = Inc(@, ota_label(z.command_id.n))],
                    z, parse_ota_request_payload(rec.payload, z))
    ELSE dev

\* lines 264-285: the OTA part of the fold, on the device
ota_fold(dev, rec, z, c) ==
  IF c.ota_details /\ rec.clusterId = OTA_CLUSTER /\ z.command_id.t # "none"
    THEN LET d1 == [dev EXCEPT
                      !.per_ota_cmd = Inc(@, ota_label(z.command_id.n))]
         IN  IF z.direction = "client_to_server"
               THEN ota_update(d1, z, parse_ota_request_payload(rec.payload, z))
               ELSE d1
    ELSE dev

\* lines 254-263: the histograms of the device
hist_fold(dev, rec, z, c) ==
  IF rec.profileId = ZDO_PROFILE
    THEN [dev EXCEPT !.per_zdo = Inc(@, zdo_label(rec))]
  ELSE
    LET d1 == [dev EXCEPT !.per_cluster = Inc(@, rec.clusterId)]
        d2 == IF z.frame_type = "global" /\ c.show_global
                   /\ z.command_id.t # "none"
                THEN [d1 EXCEPT
                        !.per_global_cmd = Inc(@, global_label(z.command_id.n))]
              ELSE IF z.command_id.t # "none"
                THEN [d1 EXCEPT !.per_cmd = Inc(@, z.command_id.n)]
              ELSE d1
    IN  ota_fold(d2, rec, z, c)

\* a fold that takes the manufacturer code from the ZCL header only
base_fold_header_only(dev, rec, z, index) ==
  [dev EXCEPT
     !.count = @ + 1,
     !.lqis = IF rec.lqi.t # "none" THEN Append(@, rec.lqi) ELSE @,
     !.rssis = IF rec.rssi.t # "none" THEN Append(@, rec.rssi) ELSE @,
     !.mfr_code = IF Truthy(z.manufacturer_code) THEN z.manufacturer_code
                                                 ELSE @,
     !.device_id = rec.device_id,
     !.network_id = rec.network_id,
     !.times = Append(@, rec.time)]

\* lines 244-251: counts, samples and identity of the device
base_fold(dev, rec, z, index) ==
  LET mfr_code == PyOr(z.manufacturer_code, IdxGet(index, rec.network_id))
  IN  [dev EXCEPT
         !.count = @ + 1,
         !.lqis = IF rec.lqi.t # "none" THEN Append(@, rec.lqi) ELSE @,
         !.rssis = IF rec.rssi.t # "none" THEN Append(@, rec.rssi) ELSE @,
         !.mfr_code = IF Truthy(mfr_code) THEN mfr_code ELSE @,
         !.device_id = rec.device_id,
         !.network_id = rec.network_id,
         !.times = Append(@, rec.time)]

\* lines 243-285 on the device aggregate
fold(dev, rec, z, c, index) ==
  hist_fold(base_fold(dev, rec, z, index), rec, z, c)

\* a summary that counts OTA commands whether OTA detail is enabled or not
summarize_ota_always(gs, rec, z, c) ==
  IF rec.profileId = ZDO_PROFILE
    THEN [gs EXCEPT !.zdo = Inc(@, zdo_label(rec))]
  ELSE
    LET g1 == IF z.frame_type = "global" /\ c.show_global
                   /\ z.command_id.t # "none"
                THEN [gs EXCEPT
                        !.global_cmds = Inc(@, global_label(z.command_id.n))]
                ELSE gs
    IN  IF rec.clusterId = OTA_CLUSTER /\ z.command_id.t # "none"
          THEN [g1 EXCEPT !.ota_cmds = Inc(@, ota_label(z.command_id.n))]
          ELSE g1

\* lines 254-266 on the global summary
summarize(gs, rec, z, c) ==
  IF rec.profileId = ZDO_PROFILE
    THEN [gs EXCEPT !.zdo = Inc(@, zdo_label(rec))]
  ELSE
    LET g1 == IF z.frame_type = "global" /\ c.show_global
                   /\ z.command_id.t # "none"
                THEN [gs EXCEPT
                        !.global_cmds = Inc(@, global_label(z.command_id.n))]
                ELSE gs
    IN  IF c.ota_details /\ rec.clusterId = OTA_CLUSTER
             /\ z.command_id.t # "none"
          THEN [g1 EXCEPT !.ota_cmds = Inc(@, ota_label(z.command_id.n))]
          ELSE g1

\* devices[name], which creates the entry
DevOf(devs, name) == IF name \in DOMAIN devs THEN devs[name] ELSE NewDevice

DevPut(devs, name, dev) ==
  [n \in DOMAIN devs \cup {name} |-> IF n = name THEN dev ELSE devs[n]]

\* rec['name'] or 'unknown'
DevName(rec) == PyOr(rec.name, StrV(UNKNOWN)).s

----------------------------------------------------------------------------
(* The lines a log is made of *)

TextLine(name, id, profile, cluster, lqi, rssi, time, device, payload) ==
  [fmt |-> "text", name |-> StrV(name), id |-> StrV(DecStr(id)),
   deviceId |-> StrV(DecStr(device)), profileId |-> StrV(profile),
   clusterId |-> StrV(cluster), lqi |-> StrV(DecStr(lqi)),
   rssi |-> StrV(<<"-">> \o DecStr(0 - rssi)), time |-> StrV(<<time>>),
   ptype |-> "list", payload |-> payload]

JsonLine(name, id, profile, cluster, lqi, rssi, time, device, ptype, payload) ==
  [fmt |-> "json", name |-> name, id |-> id, deviceId |-> device,
   profileId |-> profile, clusterId |-> cluster, lqi |-> lqi, rssi |-> rssi,
   time |-> time, ptype |-> ptype, payload |-> payload]

OtherLine(fmt) ==
  [fmt |-> fmt, name |-> NoneV, id |-> NoneV, deviceId |-> NoneV,
   profileId |-> NoneV, clusterId |-> NoneV, lqi |-> NoneV, rssi |-> NoneV,
   time |-> NoneV, ptype |-> "none", payload |-> <<>>]

NameA == <<"T","v">>
NameB == <<"F","a","n">>
HA == <<"0","1","0","4">>

LineTable ==
  << \* 1: A, manufacturer-specific (119C) server-to-client report
     TextLine(NameA, 7, HA, <<"f","f","0","1">>, 200, -60, "10:00:00.000", 3,
              Bytes(<<28, 156, 17, 5, 10>>)),
     \* 2: B, Query Next Image request, manufacturer id 1233
     TextLine(NameB, 12, HA, OTA_CLUSTER, 180, -70, "10:00:01.000", 4,
              Bytes(<<1, 10, 1, 0, 51, 18, 1, 0, 5, 0, 0, 0>>)),
     \* 3: B, Image Block request, offset 0x100, block 0x28
     TextLine(NameB, 12, HA, OTA_CLUSTER, 181, -71, "10:00:02.000", 4,
              Bytes(<<1, 11, 3, 0, 51, 18, 1, 0, 5, 0, 0, 0, 0, 1, 0, 0, 40>>)),
     \* 4: B, Image Block request, offset 0x80, block 0x20
     TextLine(NameB, 12, HA, OTA_CLUSTER, 182, -72, "10:00:03.000", 4,
              Bytes(<<1, 12, 3, 0, 51, 18, 1, 0, 5, 0, 0, 0, 128, 0, 0, 0, 32>>)),
     \* 5: B, Upgrade End request, manufacturer id 1234
     TextLine(NameB, 12, HA, OTA_CLUSTER, 183, -73, "10:00:04.000", 4,
              Bytes(<<1, 13, 6, 0, 52, 18, 1, 0, 6, 0, 0, 0>>)),
     \* 6: B, server-to-client frame on the OTA cluster, command 0x03,
     \*    the bytes of an Image Block request (10D0, offset 0x200)
     TextLine(NameB, 12, HA, OTA_CLUSTER, 184, -74, "10:00:05.000", 4,
              Bytes(<<9, 14, 3, 0, 208, 16, 1, 0, 5, 0, 0, 0, 0, 2, 0, 0, 48>>)),
     \* 7: A, Query Next Image request, manufacturer id 119C
     TextLine(NameA, 7, HA, OTA_CLUSTER, 201, -61, "10:00:06.000", 3,
              Bytes(<<1, 1, 1, 0, 156, 17, 2, 0, 1, 0, 0, 0>>)),
     \* 8: A, client-to-server Read Attributes on On/Off
     TextLine(NameA, 7, HA, <<"0","0","0","6">>, 202, -62, "10:00:07.000", 3,
              Bytes(<<0, 2, 0, 0, 0>>)),
     \* 9: A, ZDO Mgmt LQI response
     TextLine(NameA, 7, ZDO_PROFILE, <<"8","0","3","1">>, 203, -63,
              "10:00:08.000", 3, Bytes(<<33, 0, 1>>)),
     \* 10: JSON record whose id is the string "B2", manufacturer-specific
     JsonLine(StrV(NameB), StrV(<<"B","2">>), StrV(HA),
              StrV(<<"f","f","0","1">>), IntV(150), NoneV,
              StrV(<<"10:00:09.000">>), IntV(4), "list",
              Bytes(<<28, 156, 17, 6, 10>>)),
     \* 11: a line that is neither shape
     OtherLine("garbage"),
     \* 12: B, two payload bytes on Temperature Measurement
     TextLine(NameB, 12, HA, <<"0","4","0","2">>, 185, -75, "10:00:10.000", 4,
              Bytes(<<24, 1>>)),
     \* 13: a JSON array
     OtherLine("json_other"),
     \* 14: B, manufacturer-specific (10D0) server-to-client report
     TextLine(NameB, 12, HA, <<"f","f","0","1">>, 186, -76, "10:00:11.000", 4,
              Bytes(<<28, 208, 16, 7, 10>>)),
     \* 15: B, Query Next Image request (manufacturer id 1233) under a
     \*     manufacturer-specific header (10D0)
     TextLine(NameB, 12, HA, OTA_CLUSTER, 187, -77, "10:00:12.000", 4,
              Bytes(<<5, 208, 16, 15, 1, 0, 51, 18, 1, 0, 5, 0, 0, 0>>)),
     \* 16: A, JSON record without lastHopLqi and without time, a
     \*     server-to-client Default Response on On/Off
     JsonLine(StrV(NameA), IntV(7), StrV(HA), StrV(<<"0","0","0","6">>),
              NoneV, IntV(0 - 64), NoneV, IntV(3), "list",
              Bytes(<<24, 2, 11>>)),
     \* 17: B, client-to-server Configure Reporting (global command 0x06)
     \*     on the OTA cluster, nine bytes after the header
     TextLine(NameB, 12, HA, OTA_CLUSTER, 188, -78, "10:00:13.000", 4,
              Bytes(<<0, 16, 6, 0, 2, 0, 35, 1, 0, 16, 14, 0>>)),
     \* 18: A, ZDO Mgmt LQI response whose first payload byte, the
     \*     transaction sequence number, is 0x24
     TextLine(NameA, 7, ZDO_PROFILE, <<"8","0","3","1">>, 204, -65,
              "10:00:14.000", 3, Bytes(<<36, 0, 1>>)) >>

\* what parse_text_line(line) or parse_json_line(line) gives for each line of
\* the table, and what parse_zcl gives for its payload
Parsed == [i \in DOMAIN LineTable |-> parse_line(LineTable[i])]
Header ==
  [i \in DOMAIN LineTable |->
     IF Parsed[i].kind = "rec" THEN parse_zcl(Parsed[i].payload) ELSE ZclUnset]

----------------------------------------------------------------------------
(* One run of analyze_log, and a following run *)

NoFilters ==
  [mfr_filter |-> NoneV, device_id_filter |-> NoneV,
   device_name_filter |-> NoneV, dni_filter |-> NoneV,
   cluster_filters |-> <<>>, unsolicited_only |-> FALSE,
   output_file |-> TRUE, index_cache |-> FALSE, include_zdo |-> TRUE,
   show_global |-> TRUE, ota_details |-> TRUE]

EmptySummary == [zdo |-> <<>>, global_cmds |-> <<>>, ota_cmds |-> <<>>]

SeqsUpTo(S, n) == UNION {[1..k -> S] : k \in 0..n}

\* the state when analyze_log is entered
RunStart ==
  /\ pc = "start"
  /\ pos = 1
  /\ branch = "none"
  /\ dni_mfr_index = <<>>
  /\ devices = <<>>
  /\ global_summary = EmptySummary
  /\ sink = <<>>
  /\ all_times = <<>>
  /\ writes = 0

\* no decoder is being called on its own
NoNorm == [set |-> FALSE, s |-> <<>>]
FnIdle ==
  /\ frame_in = <<>>
  /\ dpc = "idle"
  /\ zcl_out = ZclUnset
  /\ ota_out = NoMeta
  /\ code_in = NoneV
  /\ norm_out = NoNorm

InitWith(lines, maxlen, cfgs, caches) ==
  /\ log \in SeqsUpTo(lines, maxlen)
  /\ cfg \in cfgs
  /\ cache \in caches
  /\ RunStart
  /\ second = FALSE
  /\ prev_run = [branch |-> "none", index |-> <<>>, writes |-> 0]
  /\ FnIdle

UseCache == cfg.index_cache /\ cache.exists

\* lines 207-211: the cache file exists and is read
LoadCache ==
  /\ pc = "start"
  /\ UNCHANGED fvars
  /\ UseCache
  /\ LET r == load_cache(cache) IN
       /\ pc' = IF r.outcome = "raise" THEN "crashed" ELSE "pass2"
       /\ dni_mfr_index' = r.index
  /\ branch' = "cache"
  /\ UNCHANGED <<log, cfg, cache, pos, devices, global_summary, sink,
                 all_times, writes, second, prev_run>>

\* lines 212-213: no cache to read, build_dni_mfr_index opens the log
StartBuild ==
  /\ pc = "start"
  /\ UNCHANGED fvars
  /\ ~UseCache
  /\ pc' = "pass1"
  /\ branch' = "build"
  /\ UNCHANGED <<log, cfg, cache, pos, dni_mfr_index, devices, global_summary,
                 sink, all_times, writes, second, prev_run>>

\* lines 185-196: pass 1 reads one line
BuildIndexStep ==
  /\ pc = "pass1"
  /\ UNCHANGED fvars
  /\ pos <= Len(log)
  /\ LET r == index_line(dni_mfr_index, Parsed[log[pos]], Header[log[pos]]) IN
       /\ pc' = IF r.raised THEN "crashed" ELSE "pass1"
       /\ dni_mfr_index' = r.index
  /\ pos' = pos + 1
  /\ UNCHANGED <<log, cfg, cache, branch, devices, global_summary, sink,
                 all_times, writes, second, prev_run>>

\* lines 197, 214-222: pass 1 is over, the cache is written if configured
EndBuild ==
  /\ pc = "pass1"
  /\ UNCHANGED fvars
  /\ pos > Len(log)
  /\ cache' = IF cfg.index_cache THEN dump_cache(cache, dni_mfr_index)
                                 ELSE cache
  /\ writes' = IF cfg.index_cache /\ cache.writable THEN writes + 1 ELSE writes
  /\ pc' = "pass2"
  /\ pos' = 1
  /\ UNCHANGED <<log, cfg, branch, dni_mfr_index, devices, global_summary,
                 sink, all_times, second, prev_run>>

\* a sink that takes a line only while it is empty
out_write_first_only(out, c, line) ==
  IF c.output_file /\ out = <<>> THEN <<line>> ELSE out

\* line 241: if out: out.write(line)
out_write(out, c, line) ==
  IF c.output_file THEN Append(out, line) ELSE out

\* lines 225-285: pass 2 reads one line
AnalyzeStep ==
  /\ pc = "pass2"
  /\ UNCHANGED fvars
  /\ pos <= Len(log)
  /\ pos' = pos + 1
  /\ LET rec == Parsed[log[pos]]
         z == Header[log[pos]]
         verdict == IF rec.kind = "raise" THEN "raise"
                    ELSE IF rec.kind = "none" THEN "drop"
                    ELSE filter_line(rec, z, cfg, dni_mfr_index)
     IN  IF verdict = "keep"
           THEN LET name == DevName(rec)
                IN  /\ pc' = "pass2"
                    /\ sink' = out_write(sink, cfg, log[pos])
                    /\ devices' = DevPut(devices, name,
                                    fold(DevOf(devices, name), rec, z, cfg,
                                         dni_mfr_index))
                    /\ global_summary' = summarize(global_summary, rec, z, cfg)
                    /\ all_times' = IF Truthy(rec.time)
                                      THEN Append(all_times, rec.time)
                                      ELSE all_times
           ELSE /\ pc' = IF verdict = "raise" THEN "crashed" ELSE "pass2"
                /\ UNCHANGED <<sink, devices, global_summary, all_times>>
  /\ UNCHANGED <<log, cfg, cache, branch, dni_mfr_index, writes, second,
                 prev_run>>

\* lines 287-289: the output file is closed and the results are returned
EndAnalyze ==
  /\ pc = "pass2"
  /\ UNCHANGED fvars
  /\ pos > Len(log)
  /\ pc' = "done"
  /\ UNCHANGED <<log, cfg, cache, pos, branch, dni_mfr_index, devices,
                 global_summary, sink, all_times, writes, second, prev_run>>

\* the command is run once more on the same log with the same arguments;
\* the cache file is what outlives a run
NextRun ==
  /\ pc \in {"done", "crashed"}
  /\ UNCHANGED fvars
  /\ ~second
  /\ cfg.index_cache
  /\ second' = TRUE
  /\ prev_run' = [branch |-> branch, index |-> dni_mfr_index,
                   writes |-> writes]
  /\ pc' = "start"
  /\ pos' = 1
  /\ branch' = "none"
  /\ dni_mfr_index' = <<>>
  /\ devices' = <<>>
  /\ global_summary' = EmptySummary
  /\ sink' = <<>>
  /\ all_times' = <<>>
  /\ writes' = 0
  /\ UNCHANGED <<log, cfg, cache>>

Next ==
  \/ LoadCache
  \/ StartBuild
  \/ BuildIndexStep
  \/ EndBuild
  \/ AnalyzeStep
  \/ EndAnalyze
  \/ NextRun

----------------------------------------------------------------------------
(* The decoders called on their own, on one payload or one code *)

\* no run of analyze_log is going on
RunIdle ==
  /\ log = <<>>
  /\ cfg = NoFilters
  /\ cache = NoCache(TRUE)
  /\ pc = "idle"
  /\ pos = 1
  /\ branch = "none"
  /\ dni_mfr_index = <<>>
  /\ devices = <<>>
  /\ global_summary = EmptySummary
  /\ sink = <<>>
  /\ all_times = <<>>
  /\ writes = 0
  /\ second = FALSE
  /\ prev_run = [branch |-> "none", index |-> <<>>, writes |-> 0]

InitDecoders(payloads) ==
  /\ RunIdle
  /\ frame_in \in payloads
  /\ dpc = "payload"
  /\ zcl_out = ZclUnset
  /\ ota_out = NoMeta
  /\ code_in = NoneV
  /\ norm_out = NoNorm

\* z=parse_zcl(pay), lines 188 and 238
DecodeHeader ==
  /\ dpc = "payload"
  /\ LET z == parse_zcl(frame_in) IN
       /\ dpc' = IF z.raised THEN "raised" ELSE "header"
       /\ zcl_out' = z
  /\ UNCHANGED <<rvars, frame_in, ota_out, code_in, norm_out>>

\* meta=parse_ota_request_payload(pay, z), lines 191-192 and 271-272: both
\* callers ask for a client-to-server frame with a command id
DecodeRequest ==
  /\ dpc = "header"
  /\ zcl_out.direction = "client_to_server"
  /\ zcl_out.command_id.t # "none"
  /\ ota_out' = parse_ota_request_payload(frame_in, zcl_out)
  /\ dpc' = "request"
  /\ UNCHANGED <<rvars, frame_in, zcl_out, code_in, norm_out>>

NextDecoders == DecodeHeader \/ DecodeRequest

InitNormalize(codes) ==
  /\ RunIdle
  /\ frame_in = <<>>
  /\ dpc = "code"
  /\ zcl_out = ZclUnset
  /\ ota_out = NoMeta
  /\ code_in \in codes
  /\ norm_out = NoNorm

\* key = normalize_mfr_code(k), line 674
Normalize ==
  /\ dpc = "code"
  /\ norm_out' = [set |-> TRUE, s |-> normalize_mfr_code(code_in)]
  /\ dpc' = "normalized"
  /\ UNCHANGED <<rvars, frame_in, zcl_out, ota_out, code_in>>

NextNormalize == Normalize

----------------------------------------------------------------------------
(* Specifications: the same program on different families of inputs *)

MaxLogLen == 3

OtaLines == {2, 3, 4, 5, 6, 7}
OtaCfgs ==
  {[NoFilters EXCEPT !.ota_details = o, !.index_cache = ic] :
     o \in BOOLEAN, ic \in BOOLEAN}

InitOta == InitWith(OtaLines, MaxLogLen, OtaCfgs, {NoCache(TRUE)})
SpecOta == InitOta /\ [][Next]_vars

MaxFilterLogLen == 2

FilterLines == {1, 2, 8, 9, 12}
FilterCfgs ==
  {[NoFilters EXCEPT !.mfr_filter = m, !.device_id_filter = d,
                     !.device_name_filter = nm, !.dni_filter = a,
                     !.cluster_filters = cl, !.include_zdo = iz,
                     !.unsolicited_only = u] :
     m \in {NoneV, StrV(<<"1","1","9","c">>)},
     d \in {NoneV, IntV(3)},
     nm \in {NoneV, StrV(<<"t","v">>)},
     a \in {NoneV, IntV(7), IntV(0)},
     cl \in {<<>>, <<OTA_CLUSTER, <<"F","F","0","1">> >>},
     iz \in BOOLEAN, u \in BOOLEAN}
  \cup {[NoFilters EXCEPT !.index_cache = TRUE, !.unsolicited_only = TRUE]}

IndexLines == {1, 2, 5, 6, 9, 10}

CacheOf(kind, entries, w) ==
  [exists |-> TRUE, kind |-> kind, entries |-> entries, writable |-> w]

\* the cache files a run may find
Caches ==
  { NoCache(TRUE), NoCache(FALSE),
    CacheOf("map", << <<DecStr(7), <<"1","0","D","0">> >>,
                      <<DecStr(12), <<"1","1","9","C">> >> >>, TRUE),
    CacheOf("map", << <<DecStr(7), <<"1","0","D","0">> >>,
                      <<<<"z","z">>, <<"1","1","9","C">> >> >>, TRUE),
    CacheOf("not_json", <<>>, TRUE),
    CacheOf("not_object", <<>>, TRUE) }

Init ==
  \/ InitWith(IndexLines, MaxLogLen, {NoFilters}, {NoCache(TRUE)})
  \/ InitWith(IndexLines, MaxLogLen,
              {[NoFilters EXCEPT !.index_cache = TRUE]}, Caches)
Spec == Init /\ [][Next]_vars

InitFilter == InitWith(FilterLines, MaxFilterLogLen, FilterCfgs, {NoCache(TRUE)})
SpecFilter == InitFilter /\ [][Next]_vars

\* logs with lines that are no frames, and with frames of one address that
\* yield different codes
LogLines == {2, 5, 11, 13, 14, 15}
InitLog ==
  InitWith(LogLines, MaxLogLen,
           {NoFilters, [NoFilters EXCEPT !.index_cache = TRUE]},
           {NoCache(TRUE)})
SpecLog == InitLog /\ [][Next]_vars

\* logs of two devices with ZDO, global, cluster-specific and OTA frames
\* and with records that lack a value, under each display option
MaxAggLogLen == 2

AggLines == {1, 2, 9, 10, 16, 17, 18}
AggCfgs ==
  {[NoFilters EXCEPT !.show_global = g, !.ota_details = o,
                     !.index_cache = ic] :
     g \in BOOLEAN, o \in BOOLEAN, ic \in BOOLEAN}
InitAggregate == InitWith(AggLines, MaxAggLogLen, AggCfgs, {NoCache(TRUE)})
SpecAggregate == InitAggregate /\ [][Next]_vars

\* payloads of up to MaxPayloadLen entries: frame-control bytes with and
\* without the manufacturer-specific bit, two-digit bytes in either case,
\* and entries that are no hex bytes
MaxPayloadLen == 5

PayloadEntries ==
  { <<"0","4">>, <<"1","C">>, <<"0","1">>, <<"9","c">>, <<"Z","Z">>, <<>> }
ShortPayloads == SeqsUpTo(PayloadEntries, MaxPayloadLen)

\* little-endian bytes of a 16-bit and of a 32-bit value
LE16(n) == Bytes(<<n % 256, n \div 256>>)
LE32(n) ==
  Bytes(<<n % 256, (n \div 256) % 256, (n \div 65536) % 256, n \div 16777216>>)

\* the bytes of an Image Block request after the ZCL header, followed by
\* two more bytes
BlockValues ==
  [field_control : {0, 2}, manufacturer_id : {4659, 4508},
   image_type : {1, 258}, file_version : {5},
   file_offset : {256, 66051}, max_data_size : {40}]
BlockData(v) ==
  Bytes(<<v.field_control>>) \o LE16(v.manufacturer_id) \o LE16(v.image_type)
    \o LE32(v.file_version) \o LE32(v.file_offset)
    \o Bytes(<<v.max_data_size, 0, 0>>)

\* ZCL headers of OTA frames: cluster-specific, with each command id, plain
\* or manufacturer-specific or server-to-client
OtaHeaders ==
  { h \o Bytes(<<9, cmd>>) :
      h \in { Bytes(<<1>>), Bytes(<<9>>), Bytes(<<5, 156, 17>>) },
      cmd \in {1, 2, 3, 6} }

\* one entry of the data is no hex byte
Damaged(data, j) ==
  [i \in DOMAIN data |-> IF i = j THEN <<"Z","Z">> ELSE data[i]]

\* OTA frames: a header, then the first k bytes of the data
OtaPayloads ==
  { h \o SubSeq(Damaged(BlockData(v), j), 1, k) :
      h \in OtaHeaders, v \in BlockValues, k \in 0..16, j \in {0, 2, 10} }

InitDecode == InitDecoders(ShortPayloads \cup OtaPayloads)
SpecDecode == InitDecode /\ [][NextDecoders]_vars

\* codes as they are written: normalized, in lower case, with a 0x or 0X
\* prefix, with blanks around, too short, too long, no number, an int, None
CodeDigits == {"0", "1", "9", "C", "A"}
NormalCodes == [1..4 -> CodeDigits]
Spellings(c) ==
  { c, Lower(c), <<"0","x">> \o Lower(c), <<"0","X">> \o c,
    <<" ">> \o c \o <<" ">>, SubSeq(c, 2, 4), c \o <<"1">>,
    <<"0">> \o c, <<c[1], "z">> }
Codes ==
  {StrV(sp) : sp \in UNION {Spellings(c) : c \in NormalCodes}}
    \cup {NoneV, IntV(4508), IntV(70000), StrV(<<>>)}

InitCodes == InitNormalize(Codes)
SpecNormalize == InitCodes /\ [][NextNormalize]_vars

----------------------------------------------------------------------------
(* What pass 2 has done so far, read off the log *)

\* pass 2 is at work or over, and lines 1..pos-1 have been read
InPass2 == pc \in {"pass2", "done"}

\* line i of the log is a record that survives the filter chain
Kept(i) ==
  /\ Parsed[log[i]].kind = "rec"
  /\ filter_line(Parsed[log[i]], Header[log[i]], cfg, dni_mfr_index) = "keep"

\* line i is a client-to-server request on the OTA cluster that decodes
InboundOta(i) ==
  /\ Parsed[log[i]].kind = "rec"
  /\ Parsed[log[i]].clusterId = OTA_CLUSTER
  /\ Parsed[log[i]].profileId # ZDO_PROFILE
  /\ Header[log[i]].direction = "client_to_server"
  /\ Header[log[i]].command_id.t # "none"
  /\ HasMeta(parse_ota_request_payload(Parsed[log[i]].payload, Header[log[i]]))

MetaOf(i) == parse_ota_request_payload(Parsed[log[i]].payload, Header[log[i]])

PhaseRank(p) ==
  CASE p = "none" -> 0
    [] p = "querying" -> 1
    [] p = "downloading" -> 2
    [] p = "awaiting_upgrade" -> 3

PhaseOfCommand(cmd) ==
  CASE cmd = 1 -> "querying"
    [] cmd = 3 -> "downloading"
    [] cmd = 6 -> "awaiting_upgrade"
    [] OTHER -> "none"

OtaSession(dev) ==
  <<dev.ota_phase, dev.ota_req_mfr, dev.ota_req_image_type,
    dev.ota_req_current_version, dev.ota_last_offset, dev.ota_max_block_size,
    dev.ota_blocks_count, dev.ota_completed_download>>

\* pass 2 reads line pos in this step
ReadsLine == pc = "pass2" /\ pos <= Len(log)

----------------------------------------------------------------------------
(* C1 *)

\* C1, as stated: within a run the OTA phase of a device never moves to an
\* earlier phase of none -> querying -> downloading -> awaiting_upgrade.
C1_PhaseOnlyForward ==
  [][\A n \in DOMAIN devices \cap DOMAIN devices' :
       PhaseRank(devices'[n].ota_phase) >= PhaseRank(devices[n].ota_phase)]_vars

\* C1, amended: the phase of a device changes only when a kept, decodable
\* client-to-server request 0x01, 0x03 or 0x06 on cluster 0019 of that device
\* is folded with OTA detail enabled; the new phase is the phase of that
\* command, whatever the phase was (so the phase may move back), and a phase
\* that has left none never returns to none.
C1_PhaseFollowsRequest ==
  [][\A n \in DOMAIN devices' :
       LET old == DevOf(devices, n).ota_phase
           new == devices'[n].ota_phase
       IN  /\ new # old =>
                /\ ReadsLine /\ Kept(pos) /\ InboundOta(pos)
                /\ cfg.ota_details
                /\ DevName(Parsed[log[pos]]) = n
                /\ Header[log[pos]].command_id.n \in {1, 3, 6}
                /\ new = PhaseOfCommand(Header[log[pos]].command_id.n)
           /\ old # "none" => new # "none"
           /\ (ReadsLine /\ Kept(pos) /\ InboundOta(pos) /\ cfg.ota_details
                 /\ DevName(Parsed[log[pos]]) = n)
                => new = PhaseOfCommand(Header[log[pos]].command_id.n)]_vars

\* a device whose download was completed is querying again
C1_Witness ==
  /\ NameB \in DOMAIN devices
  /\ devices[NameB].ota_phase = "querying"
  /\ Truthy(devices[NameB].ota_completed_download)

----------------------------------------------------------------------------
(* C2 *)

\* the file offsets of the decoded inbound Image Block requests of device n
\* among the lines pass 2 has folded
BlockOffsets(n) ==
  {MetaOf(i).file_offset :
     i \in {j \in 1..(pos - 1) :
              /\ Kept(j) /\ InboundOta(j)
              /\ DevName(Parsed[log[j]]) = n
              /\ Header[log[j]].command_id.n = 3}}

SetMax(S) == CHOOSE m \in S : \A x \in S : x <= m

\* C2: with OTA detail enabled, the stored last offset of every device is the
\* largest file offset of its decoded inbound Image Block requests so far
\* (unset while there is none); Query-Next-Image, Image Block 0x100, Image
\* Block 0x80 ends with phase downloading and last offset 0x100.
C2_OffsetIsMaximum ==
  /\ (InPass2 /\ cfg.ota_details) =>
       \A n \in DOMAIN devices :
         devices[n].ota_last_offset =
           IF BlockOffsets(n) = {} THEN NoneV ELSE IntV(SetMax(BlockOffsets(n)))
  /\ (pc = "done" /\ cfg.ota_details /\ log = <<2, 3, 4>>) =>
       /\ devices[NameB].ota_phase = "downloading"
       /\ devices[NameB].ota_last_offset = IntV(256)

\* the smaller offset 0x80 was folded after 0x100
C2_Witness ==
  /\ pc = "done" /\ cfg.ota_details /\ log = <<2, 3, 4>>
  /\ devices[NameB].ota_last_offset = IntV(256)
  /\ devices[NameB].ota_blocks_count = IntV(2)

----------------------------------------------------------------------------
(* C3 *)

\* C3: folding a server-to-client frame on cluster 0019 leaves the OTA
\* session of every device as it was and counts the frame on its device.
C3_OutboundLeavesSession ==
  [][(/\ ReadsLine
      /\ Parsed[log[pos]].kind = "rec"
      /\ Parsed[log[pos]].clusterId = OTA_CLUSTER
      /\ Header[log[pos]].direction = "server_to_client")
     => /\ \A n \in DOMAIN devices' :
             OtaSession(devices'[n]) = OtaSession(DevOf(devices, n))
        /\ Kept(pos) =>
             LET n == DevName(Parsed[log[pos]]) IN
               /\ devices'[n].count = DevOf(devices, n).count + 1
               /\ cfg.ota_details =>
                    devices'[n].per_ota_cmd # DevOf(devices, n).per_ota_cmd]_vars

\* an outbound frame with the bytes of an Image Block request was counted
\* with OTA detail enabled
C3_Witness ==
  /\ InPass2 /\ cfg.ota_details /\ pos > 1 /\ log[1] = 6
  /\ NameB \in DOMAIN devices
  /\ "Image Block Request" \in DOMAIN devices[NameB].per_ota_cmd
  /\ devices[NameB].ota_phase = "none"

----------------------------------------------------------------------------
(* C4, C5: the filter chain as the specification words it.  A predicate is  *)
(* configured when its argument was given (is not None, or is a non-empty   *)
(* cluster list); the toggles are always configured.                        *)

ResolvedCode(rec, z) ==
  PyOr(z.manufacturer_code, IdxGet(dni_mfr_index, rec.network_id))

MfrAccepts(rec, z) ==
  cfg.mfr_filter.t # "none" =>
    /\ Truthy(ResolvedCode(rec, z))
    /\ Upper(ResolvedCode(rec, z).s) = Upper(cfg.mfr_filter.s)
DeviceIdAccepts(rec) ==
  cfg.device_id_filter.t # "none" => rec.device_id = cfg.device_id_filter
NameAccepts(rec) ==
  cfg.device_name_filter.t # "none" =>
    Contains(Lower(rec.name.s), Lower(cfg.device_name_filter.s))
DniAccepts(rec) ==
  cfg.dni_filter.t # "none" => rec.network_id = cfg.dni_filter
ClusterAccepts(rec) ==
  cfg.cluster_filters # <<>> =>
    \E i \in DOMAIN cfg.cluster_filters :
      Upper(cfg.cluster_filters[i]) = Upper(rec.clusterId)
ZdoAccepts(rec) == rec.profileId = ZDO_PROFILE => cfg.include_zdo
UnsolicitedAccepts(rec, z) ==
  cfg.unsolicited_only =>
    \/ z.direction = "server_to_client"
    \/ rec.clusterId = OTA_CLUSTER
    \/ rec.profileId = ZDO_PROFILE

\* the five value predicates
ValuePredicatesAccept(rec, z) ==
  /\ MfrAccepts(rec, z) /\ DeviceIdAccepts(rec) /\ NameAccepts(rec)
  /\ DniAccepts(rec) /\ ClusterAccepts(rec)

AllPredicatesAccept(rec, z) ==
  /\ ValuePredicatesAccept(rec, z) /\ ZdoAccepts(rec)
  /\ UnsolicitedAccepts(rec, z)

\* the frame counts of all devices together
RECURSIVE SumCounts(_, _)
SumCounts(devs, names) ==
  IF names = {} THEN 0
  ELSE LET n == CHOOSE x \in names : TRUE
       IN  devs[n].count + SumCounts(devs, names \ {n})

\* C4, as stated: every record written to the output and counted in an
\* aggregate satisfies every configured predicate.
C4_FilterConjunction ==
  InPass2 =>
    /\ \A k \in DOMAIN sink :
         AllPredicatesAccept(Parsed[sink[k]], Header[sink[k]])
    /\ SumCounts(devices, DOMAIN devices) = Len(sink)

\* pass 2 counted the record of line pos in this step
Counted ==
  LET n == DevName(Parsed[log[pos]]) IN
    /\ n \in DOMAIN devices'
    /\ devices'[n].count = DevOf(devices, n).count + 1
    /\ sink' = Append(sink, log[pos])

\* C5: with unsolicited-only enabled, a non-ZDO frame on a cluster other than
\* 0019 whose direction is not server-to-client is not counted; a non-ZDO
\* frame on cluster 0019 that the value predicates accept is counted whatever
\* its direction; a ZDO frame that the value predicates accept is counted
\* when ZDO inclusion is enabled.
C5_UnsolicitedOnly ==
  [][(ReadsLine /\ cfg.unsolicited_only /\ Parsed[log[pos]].kind = "rec") =>
       LET rec == Parsed[log[pos]]
           z == Header[log[pos]]
           is_zdo == rec.profileId = ZDO_PROFILE
       IN  /\ (~is_zdo /\ rec.clusterId # OTA_CLUSTER
                 /\ z.direction # "server_to_client")
                => (devices' = devices /\ sink' = sink)
           /\ (~is_zdo /\ rec.clusterId = OTA_CLUSTER
                 /\ ValuePredicatesAccept(rec, z))
                => Counted
           /\ (is_zdo /\ cfg.include_zdo /\ ValuePredicatesAccept(rec, z))
                => Counted]_vars

\* with unsolicited-only, a client-to-server read on On/Off was dropped and
\* the client-to-server OTA query after it was counted
C5_Witness ==
  /\ pc = "done" /\ cfg.unsolicited_only /\ log = <<8, 2>>
  /\ sink = <<2>>
  /\ NameA \notin DOMAIN devices
  /\ devices[NameB].count = 1

----------------------------------------------------------------------------
(* C6, C7: what pass 1 puts into the index *)

\* the lines pass 1 has read in this run
Pass1Seen == IF pc = "pass1" THEN 1..(pos - 1) ELSE 1..Len(log)

\* pass 1 ran in this run and is over
AfterPass1 == branch = "build" /\ pc \in {"pass2", "done"}

FromAddress(i, a) ==
  Parsed[log[i]].kind = "rec" /\ Parsed[log[i]].network_id = a

HeaderCode(i) == Header[log[i]].manufacturer_code

\* line i is a client-to-server request on cluster 0019 that decodes
OtaRequestLine(i) ==
  /\ Parsed[log[i]].kind = "rec"
  /\ Parsed[log[i]].clusterId = OTA_CLUSTER
  /\ Header[log[i]].direction = "client_to_server"
  /\ Header[log[i]].command_id.t # "none"
  /\ HasMeta(MetaOf(i))

RequestCode(i) == FmtHex(MetaOf(i).manufacturer_id, 4)

\* the index entry e comes from line i, whose OTA command is one of cmds
EntryFrom(e, i, cmds) ==
  /\ FromAddress(i, e[1])
  /\ \/ HeaderCode(i) = StrV(e[2])
     \/ /\ OtaRequestLine(i)
        /\ Header[log[i]].command_id.n \in cmds
        /\ RequestCode(i) = e[2]

Addresses ==
  {Parsed[log[i]].network_id :
     i \in {j \in 1..Len(log) : Parsed[log[j]].kind = "rec"}} \ {NoneV}

SentHeaderCode(a) ==
  \E i \in 1..Len(log) : FromAddress(i, a) /\ Truthy(HeaderCode(i))

Requests(a, cmds) ==
  {i \in 1..Len(log) :
     /\ FromAddress(i, a) /\ OtaRequestLine(i)
     /\ Header[log[i]].command_id.n \in cmds}

IsCode4(s) ==
  Len(s) = 4 /\ \A i \in 1..4 : \E k \in DOMAIN HexChars : HexChars[k] = s[i]

----------------------------------------------------------------------------
(* C8, C9, C10: the cache file *)

\* the file is a JSON object whose keys are base-10 numbers
ReadableCache(c) ==
  /\ c.exists /\ c.kind = "map"
  /\ \A i \in DOMAIN c.entries : IsDec(c.entries[i][1])

CorruptCache(c) == c.exists /\ ~ReadableCache(c)

CacheItems(c) ==
  {<<IntV(DecInt(c.entries[i][1])), c.entries[i][2]>> : i \in DOMAIN c.entries}

\* C8: with a cache path configured and a readable cache file, the run goes
\* from its start straight to pass 2 with the index equal to the contents of
\* the file, and during that run neither the index nor the file changes and
\* the file is never opened for writing.
C8_CacheLoadedVerbatim ==
  [][/\ (pc = "start" /\ UseCache /\ ReadableCache(cache)) =>
          /\ pc' = "pass2"
          /\ IdxItems(dni_mfr_index') = CacheItems(cache)
          /\ cache' = cache /\ writes' = 0
     /\ (pc = "pass2" /\ branch = "cache" /\ ReadableCache(cache)) =>
          /\ pc' \in {"pass2", "done", "crashed"}
          /\ dni_mfr_index' = dni_mfr_index
          /\ cache' = cache /\ writes' = 0]_vars

\* the log holds a 119C frame of address 7, the run ended with the 10D0 of
\* the cache file for it
C8_Witness ==
  /\ pc = "done" /\ branch = "cache" /\ ~second /\ writes = 0
  /\ Len(log) >= 1 /\ log[1] = 1
  /\ IdxGet(dni_mfr_index, IntV(7)) = StrV(<<"1","0","D","0">>)
  /\ IdxGet(dni_mfr_index, IntV(12)) = StrV(<<"1","1","9","C">>)

\* the index pass 1 builds from the first k lines
RECURSIVE BuiltIndex(_)
BuiltIndex(k) ==
  IF k = 0 THEN <<>>
  ELSE index_line(BuiltIndex(k - 1), Parsed[log[k]], Header[log[k]]).index

\* C9, as stated: a run that finds a corrupt cache file does not fail and
\* works in pass 2 with the index that pass 1 builds from the log.
C9_CorruptCacheRebuilds ==
  (branch = "cache" /\ CorruptCache(cache)) =>
    /\ pc # "crashed"
    /\ pc \in {"pass2", "done"} =>
         IdxItems(dni_mfr_index) = IdxItems(BuiltIndex(Len(log)))

\* C10, as stated: a run that loads the cache a first run built and wrote
\* works with the same mapping as that first run.
C10_CacheRoundTrip ==
  (/\ second /\ branch = "cache" /\ pc \in {"pass2", "done"}
   /\ prev_run.branch = "build" /\ prev_run.writes = 1) =>
    IdxItems(dni_mfr_index) = IdxItems(prev_run.index)

----------------------------------------------------------------------------
(* The ZCL header decoder on short payloads *)

HeaderDecoded == dpc \in {"header", "request"}
HeaderTried == dpc \in {"header", "request", "raised"}

\* C11: for any payload of fewer than 3 entries, the empty payload included,
\* parse_zcl returns without raising and every field is unset: frame
\* control, frame type, direction, manufacturer code, sequence number and
\* command id are unset and both flags are false.
C11_ShortPayloadAllUnset ==
  (HeaderTried /\ Len(frame_in) < 3) =>
    /\ dpc # "raised"
    /\ zcl_out.fc = NoneV
    /\ zcl_out.frame_type = "none"
    /\ zcl_out.direction = "none"
    /\ zcl_out.manufacturer_code = NoneV
    /\ zcl_out.sequence = NoneV
    /\ zcl_out.command_id = NoneV
    /\ ~zcl_out.manuf_specific
    /\ ~zcl_out.disable_default_rsp

\* a two-byte payload whose first byte has the manufacturer-specific and the
\* disable-default-response bits set has been decoded
C11_Witness ==
  /\ HeaderDecoded
  /\ frame_in = << <<"1","C">>, <<"0","4">> >>

\* a payload of exactly three hex bytes whose frame-control byte has bit 2
\* (manufacturer-specific) set
ThreeBytesManufSpecific ==
  /\ Len(frame_in) = 3
  /\ \A i \in 1..3 : IsHex(frame_in[i])
  /\ BitSet(HexInt(frame_in[1]), 4)

TypeAndFlagsSet ==
  /\ zcl_out.fc = IntV(HexInt(frame_in[1]))
  /\ zcl_out.frame_type \in {"cluster", "global"}
  /\ zcl_out.direction \in {"client_to_server", "server_to_client"}
  /\ zcl_out.manuf_specific

\* C12 as stated: for any payload of exactly 3 bytes whose frame-control
\* byte has the manufacturer-specific bit set, parse_zcl returns a header
\* with only the type and flag fields set: the manufacturer code, the
\* sequence number and the command id are unset.
C12_ThreeBytesCodeUnset ==
  (HeaderTried /\ ThreeBytesManufSpecific) =>
    /\ dpc # "raised"
    /\ TypeAndFlagsSet
    /\ zcl_out.manufacturer_code = NoneV
    /\ zcl_out.sequence = NoneV
    /\ zcl_out.command_id = NoneV

\* C12 amended: for such a payload parse_zcl returns the type and flag
\* fields and the manufacturer code, read little-endian from bytes 1 and 2
\* and written as 4 uppercase hex digits; only the sequence number and the
\* command id are unset.
C12_ThreeBytesCodeSet ==
  (HeaderTried /\ ThreeBytesManufSpecific) =>
    /\ dpc # "raised"
    /\ TypeAndFlagsSet
    /\ zcl_out.manufacturer_code =
         StrV(FmtHex(HexInt(frame_in[3]) * 256 + HexInt(frame_in[2]), 4))
    /\ zcl_out.sequence = NoneV
    /\ zcl_out.command_id = NoneV

\* the three bytes 1C 9c 01 have been decoded to the code 019C
C12_Witness ==
  /\ HeaderDecoded
  /\ frame_in = << <<"1","C">>, <<"9","c">>, <<"0","1">> >>
  /\ zcl_out.manufacturer_code = StrV(<<"0","1","9","C">>)

----------------------------------------------------------------------------
(* The ZCL header decoder on entries that are no hex bytes *)

\* C13: parse_zcl never raises: for every payload a normalized record can
\* carry, entries that are no two-digit hex bytes included, it returns a
\* header (with the undecodable fields unset) and the caller goes on.
C13_DecoderNeverRaises == dpc # "raised"

----------------------------------------------------------------------------
(* The OTA request decoder *)

RequestDecoded == dpc = "request"

\* the number of payload entries after the ZCL header, whose length is 3,
\* or 5 when the header is manufacturer-specific
DataLen == Len(frame_in) - (IF zcl_out.manuf_specific THEN 5 ELSE 3)

\* the fixed fields of each of the three request shapes
FixedFields(cmd) ==
  CASE cmd = 1 -> {"field_control", "manufacturer_id", "image_type",
                   "file_version"}
    [] cmd = 3 -> {"field_control", "manufacturer_id", "image_type",
                   "file_version", "file_offset", "max_data_size"}
    [] cmd = 6 -> {"status", "manufacturer_id", "image_type", "file_version"}
    [] OTHER   -> {}

\* C14: OTA request decoding is all-or-nothing: command 0x01 or 0x06 with
\* fewer than 9 bytes after the ZCL header, and command 0x03 with fewer than
\* 14, give "not decodable"; a result that is returned belongs to one of
\* the three commands and has every fixed field of its shape, each an int.
C14_AllOrNothing ==
  RequestDecoded =>
    LET cmd == zcl_out.command_id.n IN
      /\ (cmd \in {1, 6} /\ DataLen < 9) => ~HasMeta(ota_out)
      /\ (cmd = 3 /\ DataLen < 14) => ~HasMeta(ota_out)
      /\ HasMeta(ota_out) =>
           /\ cmd \in {1, 3, 6}
           /\ DOMAIN ota_out = FixedFields(cmd)
           /\ \A f \in DOMAIN ota_out : ota_out[f] \in Nat

\* an Image Block request with a manufacturer-specific header and 13 bytes
\* after it, one short of its shape, was found not decodable
C14_Witness ==
  /\ RequestDecoded
  /\ zcl_out.manuf_specific
  /\ zcl_out.command_id = IntV(3)
  /\ DataLen = 13
  /\ \A i \in DOMAIN frame_in : IsHex(frame_in[i])
  /\ ~HasMeta(ota_out)

\* Image Block requests as they are encoded: a client-to-server
\* cluster-specific header with command 0x03, plain or
\* manufacturer-specific, then field-control 0x00 and the five values
\* little-endian, then up to two more bytes
BlockFrames ==
  { [frame |-> h \o Bytes(<<9, 3>>) \o SubSeq(BlockData(v), 1, k),
     values |-> v] :
      h \in { Bytes(<<1>>), Bytes(<<5, 156, 17>>) },
      v \in {w \in BlockValues : w.field_control = 0},
      k \in 14..16 }

\* C15: an Image Block request with field-control 0x00 and at least 14
\* bytes after the ZCL header decodes to the manufacturer id, image type,
\* file version, file offset and max data size that were encoded
\* little-endian, and to no other field than these and the field control.
C15_ImageBlockRoundTrip ==
  RequestDecoded =>
    \A b \in BlockFrames : frame_in = b.frame => ota_out = b.values

\* the frame 01 09 03 00 33 12 01 00 05 00 00 00 00 01 00 00 28 has been
\* decoded to 0x1233, 0x0001, 0x00000005, 0x00000100 and 0x28
C15_Witness ==
  /\ RequestDecoded
  /\ frame_in = Bytes(<<1, 9, 3, 0, 51, 18, 1, 0, 5, 0, 0, 0, 0, 1, 0, 0, 40>>)
  /\ HasMeta(ota_out)
  /\ ota_out.manufacturer_id = 4659
  /\ ota_out.image_type = 1
  /\ ota_out.file_version = 5
  /\ ota_out.file_offset = 256
  /\ ota_out.max_data_size = 40

----------------------------------------------------------------------------
(* Lines that are no frames *)

\* the running pass reads line pos in this step
PassReadsLine == pc \in {"pass1", "pass2"} /\ pos <= Len(log)

\* the line matches neither the key/value text shape nor the JSON-object
\* shape
NotAFrame(line) == line.fmt \notin {"text", "json"}

\* C16: a line that matches neither shape is skipped silently in both
\* passes: the pass goes on with the next line, and no aggregate, counter,
\* index entry or output line changes.  This holds for every such line,
\* JSON values that are no object included.
C16_UnparsableSkipped ==
  [][(PassReadsLine /\ NotAFrame(LineTable[log[pos]])) =>
       /\ pc' = pc
       /\ pos' = pos + 1
       /\ UNCHANGED <<dni_mfr_index, devices, global_summary, sink,
                      all_times>>]_vars

----------------------------------------------------------------------------
(* Which code the index keeps for an address *)

\* line i yields a code: the code of its ZCL header or, without one, the
\* manufacturer id of the OTA request it carries
YieldsCode(i) ==
  Parsed[log[i]].kind = "rec" /\ (Truthy(HeaderCode(i)) \/ OtaRequestLine(i))

YieldedCode(i) ==
  IF Truthy(HeaderCode(i)) THEN HeaderCode(i).s ELSE RequestCode(i)

YieldingLines(a) ==
  {i \in Pass1Seen : FromAddress(i, a) /\ YieldsCode(i)}

\* C20: last seen wins: while and after pass 1 builds the index, the code
\* stored for an address is the one yielded by the last line read from
\* that address that yields a code, whether it is a header code or an
\* OTA-inferred one, and an address none of whose lines yields a code has
\* no entry.
C20_LastSeenWins ==
  (branch = "build" /\ pc \in {"pass1", "pass2", "done"}) =>
    \A a \in Addresses :
      IF YieldingLines(a) = {}
        THEN ~IdxHas(dni_mfr_index, a)
        ELSE /\ IdxHas(dni_mfr_index, a)
             /\ IdxGet(dni_mfr_index, a).s =
                  YieldedCode(SetMax(YieldingLines(a)))

\* address 12 sent a header code (10D0), then a Query-Next-Image request
\* with another manufacturer id (1233), then the header code again: after
\* the second line the index held 1233, after pass 1 it holds 10D0
C20_Witness ==
  /\ AfterPass1
  /\ log = <<14, 2, 14>>
  /\ IdxGet(dni_mfr_index, IntV(12)) = StrV(<<"1","0","D","0">>)

----------------------------------------------------------------------------
(* The output sink *)

\* the lines among the first k of the log whose record survives the filter
\* chain, in source order
RECURSIVE KeptLines(_)
KeptLines(k) ==
  IF k = 0 THEN <<>>
  ELSE IF Kept(k) THEN Append(KeptLines(k - 1), log[k])
  ELSE KeptLines(k - 1)

\* C17: with an output sink configured, at every point of pass 2 the sink
\* holds the original lines of exactly the records read so far that survive
\* the filter chain, in source order, and the number of lines written equals
\* the sum of all device frame counts; no filtered-out and no unparsable
\* line is in it.
C17_SinkHoldsSurvivors ==
  (InPass2 /\ cfg.output_file) =>
    /\ sink = KeptLines(pos - 1)
    /\ Len(sink) = SumCounts(devices, DOMAIN devices)

\* two lines were read under a filter, the first was filtered out and the
\* second was written
C17_Witness ==
  /\ InPass2 /\ cfg.output_file
  /\ pos = 3
  /\ ~Kept(1)
  /\ Parsed[log[1]].kind = "rec"
  /\ sink = <<log[2]>>

----------------------------------------------------------------------------
(* Manufacturer-code normalization *)

Normalized == dpc = "normalized"

Code119C == <<"1","1","9","C">>

\* C18: normalization leaves a normalized code alone: for every code c of 4
\* uppercase hex digits normalize_mfr_code(c) = c; and "0x119c", "119c"
\* and "119C" all give "119C".
C18_NormalizeIdempotent ==
  (Normalized /\ code_in.t = "str") =>
    /\ code_in.s \in NormalCodes => norm_out.s = code_in.s
    /\ code_in.s \in { <<"0","x">> \o Lower(Code119C), Lower(Code119C),
                       Code119C }
         => norm_out.s = Code119C

\* "0x119c" has been normalized to "119C"
C18_Witness ==
  /\ Normalized
  /\ code_in = StrV(<<"0","x","1","1","9","c">>)
  /\ norm_out = [set |-> TRUE, s |-> Code119C]

----------------------------------------------------------------------------
(* The OTA session follows the source order *)

\* the decoded inbound OTA requests of device n among the lines pass 2 has
\* folded, and the Image Block requests among them
FoldedRequests(n) ==
  {i \in 1..(pos - 1) :
     Kept(i) /\ InboundOta(i) /\ DevName(Parsed[log[i]]) = n}

FoldedBlocks(n) ==
  {i \in FoldedRequests(n) : Header[log[i]].command_id.n = 3}

\* C19: records are folded in source order: after any prefix of the log
\* the OTA phase of every device is the phase of its most recent surviving
\* client-to-server OTA frame that decoded (0x01 querying, 0x03
\* downloading, 0x06 awaiting_upgrade), unset if there is none, and its
\* block counter is the number of its decoded Image Block requests so far
\* (unset before the first).  With OTA detail disabled the phase and every
\* OTA session field stay unset.
C19_PhaseAndBlocksFollowOrder ==
  InPass2 =>
    \A n \in DOMAIN devices :
      IF cfg.ota_details
        THEN /\ devices[n].ota_phase =
                  IF FoldedRequests(n) = {} THEN "none"
                  ELSE PhaseOfCommand(
                         Header[log[SetMax(FoldedRequests(n))]].command_id.n)
             /\ devices[n].ota_blocks_count =
                  IF FoldedBlocks(n) = {} THEN NoneV
                  ELSE IntV(Cardinality(FoldedBlocks(n)))
        ELSE OtaSession(devices[n]) = OtaSession(NewDevice)

\* device B sent two Image Block requests and then a Query Next Image
\* request: its phase is querying and two blocks are counted
C19_Witness ==
  /\ InPass2 /\ cfg.ota_details
  /\ log = <<3, 4, 2>>
  /\ pos = 4
  /\ devices[NameB].ota_phase = "querying"
  /\ devices[NameB].ota_blocks_count = IntV(2)

----------------------------------------------------------------------------
(* The ZCL header decoder on complete headers *)

\* the length of the ZCL header that the frame-control byte announces
HeaderLen == IF BitSet(HexInt(frame_in[1]), 4) THEN 5 ELSE 3

\* the payload has the bytes of a complete header
CompleteHeader ==
  /\ Len(frame_in) >= 1 /\ IsHex(frame_in[1])
  /\ Len(frame_in) >= HeaderLen
  /\ \A i \in 1..HeaderLen : IsHex(frame_in[i])

\* C21: for a payload with enough bytes (3, or 5 when bit 2 of byte 0 is
\* set) parse_zcl returns: frame type cluster iff bits 0-1 of byte 0 are
\* 01, else global; manufacturer-specific = bit 2; direction
\* server-to-client iff bit 3 is set; disable-default-response = bit 4; the
\* manufacturer code, when bit 2 is set, = byte 2 * 256 + byte 1 as 4
\* uppercase hex digits, else unset; the sequence number = the next byte and
\* the command id = the byte after it.
C21_CompleteHeaderDecoded ==
  (HeaderTried /\ CompleteHeader) =>
    LET fc == HexInt(frame_in[1]) IN
      /\ dpc # "raised"
      /\ zcl_out.fc = IntV(fc)
      /\ zcl_out.frame_type = "cluster" <=> fc % 4 = 1
      /\ zcl_out.frame_type = "global" <=> fc % 4 # 1
      /\ zcl_out.manuf_specific <=> (fc \div 4) % 2 = 1
      /\ zcl_out.direction = "server_to_client" <=> (fc \div 8) % 2 = 1
      /\ zcl_out.direction = "client_to_server" <=> (fc \div 8) % 2 = 0
      /\ zcl_out.disable_default_rsp <=> (fc \div 16) % 2 = 1
      /\ zcl_out.manufacturer_code =
           IF (fc \div 4) % 2 = 1
             THEN StrV(FmtHex(HexInt(frame_in[3]) * 256
                                + HexInt(frame_in[2]), 4))
             ELSE NoneV
      /\ zcl_out.sequence = IntV(HexInt(frame_in[HeaderLen - 1]))
      /\ zcl_out.command_id = IntV(HexInt(frame_in[HeaderLen]))

\* the five bytes 1C 9c 01 04 01 have been decoded: global,
\* manufacturer-specific, server-to-client, code 019C, sequence 4, command 1
C21_Witness ==
  /\ HeaderDecoded
  /\ frame_in = << <<"1","C">>, <<"9","c">>, <<"0","1">>, <<"0","4">>,
                   <<"0","1">> >>
  /\ zcl_out.frame_type = "global"
  /\ zcl_out.direction = "server_to_client"
  /\ zcl_out.manufacturer_code = StrV(<<"0","1","9","C">>)
  /\ zcl_out.sequence = IntV(4)
  /\ zcl_out.command_id = IntV(1)

----------------------------------------------------------------------------
(* The optional fields of an Image Block request *)

\* the optional fields whose field-control bit is set and whose bytes are
\* there after the 14 fixed bytes: the 8-byte requesting node address
\* (bit 0), then the 16-bit block-request delay (bit 1)
AddressDue == BitSet(ota_out.field_control, 1) /\ DataLen >= 14 + 8
DelayDue ==
  /\ BitSet(ota_out.field_control, 2)
  /\ DataLen >= 14 + (IF BitSet(ota_out.field_control, 1) THEN 8 ELSE 0) + 2

\* C22: the decoded Image Block request carries each optional field exactly
\* when its field-control bit is set and its bytes are available: the
\* fields of the result beyond the six fixed ones are as many as the
\* optional fields that are due.
C22_OptionalFieldsDecoded ==
  (RequestDecoded /\ zcl_out.command_id = IntV(3) /\ HasMeta(ota_out)) =>
    Cardinality(DOMAIN ota_out \ FixedFields(3)) =
      (IF AddressDue THEN 1 ELSE 0) + (IF DelayDue THEN 1 ELSE 0)

----------------------------------------------------------------------------
(* The global summary and the histograms of the devices *)

\* counter[k] of a Counter
CountOf(counter, k) == IF k \in DOMAIN counter THEN counter[k] ELSE 0

\* the sum of the counts of label k in histogram h of the devices in names
RECURSIVE SumOfLabel(_, _, _)
SumOfLabel(h, k, names) ==
  IF names = {} THEN 0
  ELSE LET n == CHOOSE x \in names : TRUE
       IN  CountOf(devices[n][h], k) + SumOfLabel(h, k, names \ {n})

\* the labels of histogram h over all devices
LabelsOf(h) == UNION {DOMAIN devices[n][h] : n \in DOMAIN devices}

\* the global histogram g agrees with the device histogram h on every label
Agrees(g, h) ==
  \A k \in DOMAIN global_summary[g] \cup LabelsOf(h) :
    CountOf(global_summary[g], k) = SumOfLabel(h, k, DOMAIN devices)

\* C23: in every state of pass 2, for every label, the global count of ZDO
\* operations, of ZCL global commands and of OTA commands equals the sum of
\* the counts of that label over all device aggregates.
C23_SummaryMatchesDevices ==
  InPass2 =>
    /\ Agrees("zdo", "per_zdo")
    /\ Agrees("global_cmds", "per_global_cmd")
    /\ Agrees("ota_cmds", "per_ota_cmd")

\* two devices each sent a ZDO or OTA frame: the global summary holds an OTA
\* command that one device counted and a ZDO operation the other counted
C23_Witness ==
  /\ InPass2
  /\ cfg.ota_details
  /\ pos = 3
  /\ log = <<2, 9>>
  /\ DOMAIN global_summary.ota_cmds # {}
  /\ DOMAIN global_summary.zdo # {}
  /\ Cardinality(DOMAIN devices) = 2

\* the sum of all counts of a Counter
RECURSIVE TotalOf(_, _)
TotalOf(counter, keys) ==
  IF keys = {} THEN 0
  ELSE LET k == CHOOSE x \in keys : TRUE
       IN  counter[k] + TotalOf(counter, keys \ {k})

\* the surviving non-ZDO cluster-specific frames of device n with a command
\* id among the lines pass 2 has folded
ClusterCommandFrames(n) ==
  {i \in 1..(pos - 1) :
     /\ Kept(i)
     /\ DevName(Parsed[log[i]]) = n
     /\ Parsed[log[i]].profileId # ZDO_PROFILE
     /\ Header[log[i]].frame_type = "cluster"
     /\ Header[log[i]].command_id.t # "none"}

\* C24: under every configuration, global-command display disabled
\* included, the raw-command-id histogram of a device counts its surviving
\* non-ZDO cluster-specific frames with a command id and nothing else: a
\* frame of ZCL frame type global never adds to it.
C24_CommandHistogramClusterOnly ==
  InPass2 =>
    \A n \in DOMAIN devices :
      TotalOf(devices[n].per_cmd, DOMAIN devices[n].per_cmd) =
        Cardinality(ClusterCommandFrames(n))

----------------------------------------------------------------------------
(* The sample sequences of a device *)

\* the surviving frames of device n among the lines pass 2 has folded
FoldedFrames(n) ==
  {i \in 1..(pos - 1) : Kept(i) /\ DevName(Parsed[log[i]]) = n}

Carrying(n, field) ==
  {i \in FoldedFrames(n) : Parsed[log[i]][field].t # "none"}

NoUnset(samples) == \A i \in DOMAIN samples : samples[i].t # "none"

\* C25: for every surviving record the frame count grows by 1, and an LQI,
\* RSSI or timestamp is appended only when the record carries it: no
\* sequence of a device contains an unset entry, and the length of each
\* sequence is the number of the device's frames that carry that field.
C25_SamplesOnlyWhenPresent ==
  InPass2 =>
    \A n \in DOMAIN devices :
      /\ devices[n].count = Cardinality(FoldedFrames(n))
      /\ NoUnset(devices[n].lqis)
      /\ NoUnset(devices[n].rssis)
      /\ NoUnset(devices[n].times)
      /\ Len(devices[n].lqis) = Cardinality(Carrying(n, "lqi"))
      /\ Len(devices[n].rssis) = Cardinality(Carrying(n, "rssi"))
      /\ Len(devices[n].times) = Cardinality(Carrying(n, "time"))

\* C28: in every device aggregate the RSSI and the timestamp sequences are
\* index-aligned: for every i the i-th RSSI sample and the i-th timestamp
\* come from the same frame of the device, also when a structured record
\* lacks an RSSI value.
C28_RssiAlignedWithTimes ==
  InPass2 =>
    \A n \in DOMAIN devices :
      \A i \in DOMAIN devices[n].rssis :
        /\ i \in DOMAIN devices[n].times
        /\ \E j \in FoldedFrames(n) :
             /\ Parsed[log[j]].rssi = devices[n].rssis[i]
             /\ Parsed[log[j]].time = devices[n].times[i]

----------------------------------------------------------------------------
(* Manufacturer resolution in the filter and in the aggregation *)

\* the index pass 2 works with: what pass 1 built from the whole log, or
\* what the cache file gave
CompletedIndex ==
  IF branch = "build" THEN BuiltIndex(Len(log)) ELSE load_cache(cache).index

\* the resolved code of line i: the code of its ZCL header if there is one,
\* otherwise the entry of its address in the completed index
ResolvedOf(i) ==
  PyOr(Header[log[i]].manufacturer_code,
       IdxGet(CompletedIndex, Parsed[log[i]].network_id))

\* the frames of device n folded so far that resolve to a code
ResolvingFrames(n) == {i \in FoldedFrames(n) : Truthy(ResolvedOf(i))}

\* the manufacturer filter is the only filter that is configured
OnlyMfrFilter ==
  /\ cfg.mfr_filter.t # "none"
  /\ cfg.device_id_filter.t = "none" /\ cfg.device_name_filter.t = "none"
  /\ cfg.dni_filter.t = "none" /\ cfg.cluster_filters = <<>>
  /\ cfg.include_zdo /\ ~cfg.unsolicited_only

MatchesMfrFilter(i) ==
  /\ Truthy(ResolvedOf(i))
  /\ Upper(ResolvedOf(i).s) = Upper(cfg.mfr_filter.s)

\* C26: the filter and the aggregation resolve the manufacturer in the same
\* way, with the completed index, which pass 2 never modifies: under a
\* manufacturer filter every surviving record has a resolved code that
\* matches it, and with no other filter every record whose resolved code
\* matches survives, also when it precedes the first code-bearing frame of
\* its address; the last-known manufacturer code of a device is the
\* resolved code of its most recent surviving frame that resolved to one,
\* and unset when there is none.
C26_ResolutionUsesCompletedIndex ==
  InPass2 =>
    /\ dni_mfr_index = CompletedIndex
    /\ cfg.mfr_filter.t # "none" =>
         \A i \in 1..(pos - 1) : Kept(i) => MatchesMfrFilter(i)
    /\ OnlyMfrFilter =>
         \A i \in 1..(pos - 1) :
           (Parsed[log[i]].kind = "rec" /\ MatchesMfrFilter(i)) =>
             \E k \in DOMAIN sink : sink[k] = log[i]
    /\ \A n \in DOMAIN devices :
         devices[n].mfr_code =
           IF ResolvingFrames(n) = {} THEN NoneV
           ELSE ResolvedOf(SetMax(ResolvingFrames(n)))

\* under the filter 119c a frame without header code was read before the
\* first frame of its address that carries the code 119C: it was written
\* and gave the device its manufacturer code
C26_Witness ==
  /\ pc = "pass2"
  /\ OnlyMfrFilter
  /\ log = <<8, 1>>
  /\ pos = 2
  /\ sink = <<8>>
  /\ devices[NameA].mfr_code = StrV(<<"1","1","9","C">>)

\* C27: a configured network-address filter or device-id filter is an
\* exact-match predicate for every value, 0 included: whenever a value is
\* supplied, every counted record has exactly that network address
\* (respectively device id).
C27_ZeroIsAFilterValue ==
  InPass2 =>
    \A k \in DOMAIN sink :
      /\ cfg.dni_filter.t # "none" =>
           Parsed[sink[k]].network_id = cfg.dni_filter
      /\ cfg.device_id_filter.t # "none" =>
           Parsed[sink[k]].device_id = cfg.device_id_filter

----------------------------------------------------------------------------
(* Frames that are no OTA cluster-specific commands, and ZDO frames *)

\* the device the line read in this step is attributed to
ReadName == DevName(Parsed[log[pos]])

\* the line read in this step is a non-ZDO frame on cluster 0019 whose ZCL
\* frame type is global and whose header carries no manufacturer code
ReadsGlobalOtaFrame ==
  /\ PassReadsLine
  /\ Parsed[log[pos]].kind = "rec"
  /\ Parsed[log[pos]].profileId # ZDO_PROFILE
  /\ Parsed[log[pos]].clusterId = OTA_CLUSTER
  /\ Header[log[pos]].frame_type = "global"
  /\ ~Truthy(Header[log[pos]].manufacturer_code)

\* C29: only OTA cluster-specific commands drive the OTA session: a frame
\* on cluster 0019 whose ZCL frame type is global (a client-to-server
\* Configure Reporting, command 0x06, say) changes neither the phase nor
\* the stored query fields, offset, block count or completed-download flag
\* of its device in pass 2, and adds no index entry in pass 1.
C29_GlobalFramesLeaveOtaAlone ==
  [][ReadsGlobalOtaFrame =>
       /\ pc = "pass1" => dni_mfr_index' = dni_mfr_index
       /\ (pc = "pass2" /\ ReadName \in DOMAIN devices') =>
            OtaSession(devices'[ReadName]) =
              OtaSession(DevOf(devices, ReadName))]_vars

\* the line read in this step is a ZDO frame
ReadsZdoFrame ==
  /\ PassReadsLine
  /\ Parsed[log[pos]].kind = "rec"
  /\ Parsed[log[pos]].profileId = ZDO_PROFILE

\* the histograms of ZCL frames and the OTA session of a device
ZclSide(dev) ==
  <<dev.per_cluster, dev.per_cmd, dev.per_global_cmd, dev.per_ota_cmd,
    OtaSession(dev)>>

\* C30: a ZDO frame never contributes a manufacturer code: in pass 1 it
\* adds or overwrites no index entry, and in pass 2 the last-known
\* manufacturer code of its device becomes the index entry of its address
\* or stays as it was, the per-cluster, command and OTA histograms do not
\* change and the OTA session does not change.
C30_ZdoFramesCarryNoCode ==
  [][ReadsZdoFrame =>
       /\ pc = "pass1" => dni_mfr_index' = dni_mfr_index
       /\ (pc = "pass2" /\ ReadName \in DOMAIN devices') =>
            /\ devices'[ReadName].mfr_code =
                 IF Truthy(IdxGet(dni_mfr_index,
                                  Parsed[log[pos]].network_id))
                   THEN IdxGet(dni_mfr_index, Parsed[log[pos]].network_id)
                   ELSE DevOf(devices, ReadName).mfr_code
            /\ ZclSide(devices'[ReadName]) =
                 ZclSide(DevOf(devices, ReadName))]_vars

====
